---- MODULE Spec2Model ----
(***************************************************************************)
(* A model of the LSP bridge: the LSP client (open-file registry, request  *)
(* correlation, reader loop, server-request dispatch) and the framing      *)
(* transport (writeMessage / MessageReader).                               *)
(*                                                                         *)
(* Three specifications share the variables:                               *)
(*   SpecFiles      the open-file registry under concurrent openFile,      *)
(*                  notifyChange and closeFile invocations;                *)
(*   SpecRpc        call(), the reader loop and server-request handling;   *)
(*   SpecTransport  writeMessage framing and MessageReader parsing at the  *)
(*                  byte level.                                            *)
(* Every asynchronous method is cut at its await points: one action per    *)
(* synchronous stretch of code between two awaits.                         *)
(***************************************************************************)
EXTENDS Integers, Sequences, FiniteSets, TLC

VARIABLES
    \* ---- LSPClient, open-file registry (client.ts 90, 228-310)
    openFiles,      \* Map<uri, OpenFileInfo>: uri -> object id, 0 = no entry
    fileInfo,       \* the OpenFileInfo objects ever created: id -> version
    task,           \* the invocations of openFile/notifyChange/closeFile in flight
    opsStarted,     \* number of invocations started (bounded by MaxOps)
    stdinOpen,      \* FALSE once close() has ended the child's stdin
    sent,           \* the messages the child's stdin accepted, in wire order
    \* ---- LSPClient, request correlation and reader loop (client.ts 85-88, 346-562)
    nextId,         \* this.nextId
    pendingRequests,\* keys of this.pendingRequests (the decimal strings of ids)
    callState,      \* the call() invocations so far: [id, st], in invocation order
    serverRequestHandlers, \* methods with a registered server-request handler
    notificationHandlers,  \* methods with a registered notification handler
    readerPc,       \* position of handleMessages: "read", "awaitHandler", "terminated"
    readerExit,     \* why handleMessages left its loop ("none" while it runs)
    messagesRead,   \* number of messages readMessage() has resolved
    serverRequests, \* the server requests dispatched to handleServerRequest, each with
                    \* the responses handed to writeMessage for it
    lastDispatch,   \* the last message read, its sink and what the sink did
    \* ---- transport (part_000 342-475)
    submitted,      \* messages handed to writeMessage, in call order
    pipe,           \* bytes written to the stream and not yet delivered
    delivered,      \* bytes delivered to the reader so far (history)
    buffer,         \* MessageReader.buffer
    contentLength,  \* MessageReader.contentLength
    listening,      \* TRUE while a readMessage() has its listeners attached
    received,       \* messages resolved by readMessage(), in order
    readerError,    \* "none" or the rejection of the last readMessage()
    ended           \* TRUE once the stream has emitted 'end'

VARIABLES
    \* ---- LSPClient, diagnostics store (client.ts 89, 339-341, 614-623)
    diagnostics,    \* this.diagnostics: uri -> [present, list]
    notifications   \* the publishDiagnostics notifications read so far, in arrival
                    \* order, each with whether a handler was registered for it

VARIABLES
    \* ---- LSPClient.initialize (client.ts 145-215)
    initPc,         \* position of initialize(): "notStarted", "awaitResponse",
                    \* "awaitNotify", "done", "failed"
    initResponse,   \* the response dispatched to the initialize call: "none", "result", "error"
    stdinLog        \* the messages the child's stdin accepted, in wire order

VARIABLES
    \* ---- client/registerCapability (client.ts 66-73, 586-600; part_007 94, 111-125)
    fileWatchHandler,   \* TRUE once registerFileWatchHandler has set the hook
    registrations,      \* WorkspaceWatcher.registrations
    capabilityRequests  \* the client/registerCapability requests read so far: their
                        \* registrations and the response written

VARIABLES
    \* ---- tools (part_003 22-40, part_004 60-79, tools/rename.ts 29-49)
    tool            \* per task: the tool invocation in progress, its request method
                    \* and the uri it targets; NoTool when none

VARIABLES
    \* ---- cleanup on SIGINT/SIGTERM (uri.ts 437-462; client.ts 323-334, 389-409)
    cleanupPc,      \* position of cleanup(): "notStarted", "closeAllFiles", "shutdown",
                    \* "shutdownWait", "exit", "exitWait", "close", "closeWait", "done"
    files,          \* closeAllFiles: the snapshot Array.from(this.openFiles.keys())
    fileIndex,      \* closeAllFiles: index of the loop in `files`
    steps           \* the steps of the sequence that have settled, in order, each with
                    \* the uri it was about and whether an error was logged for it

VARIABLES
    \* ---- LSPClient.close and the child process (client.ts 121-123, 414-433)
    childExited,    \* the child process has exited
    exitObserved,   \* the 'exit' listener registered by close() has run
    timer,          \* the grace timer of close(): "none", "armed", "cleared", "fired"
    killed          \* this.process.kill('SIGKILL') was called

VARIABLES
    \* ---- WorkspaceWatcher, debounce (part_007 98, 248-353)
    now,            \* the time, in ticks
    lastEvent,      \* the time of the most recent Changed event
    eventsSeen,     \* the number of Changed events handled
    eventKeys,      \* the debounce keys the events were filed under
    debounceTimers, \* this.debounceTimers: key -> deadline of the timer stored, 0 = no entry
    armed,          \* the timers set and neither fired nor cleared, each [key, deadline]
    notifying       \* TRUE while a timer callback has yet to call client.notifyChange

VARIABLES
    \* ---- WorkspaceWatcher: events, stop, workspace walks (part_007 93-174, 252-288, 424-466)
    watcherState,   \* this.watcher: "watching", "closing" (stop awaits close), "stopped"
    lastFileEvent,  \* the file event handled last, with what became of it
    notifyingPath,  \* the path of the timer callback that has yet to call notifyChange
    walks           \* the runs of openMatchingFiles, each [pc, index, visited]

VARIABLES
    \* ---- functions of the watcher and the tools, one call each
        globCall,       \* matchesPattern: the call made last, [path, pattern, result]
    editCall,       \* applyWorkspaceEdit: the call made last, [content, edits, written]
    definitionCall, \* getFullDefinition: the call made last, [lines, range, result]
        symbolCall,     \* readDefinition: the call made last, [query, symbols, accepted, output]
    displayCall,    \* getLineRangesToDisplay: the call made last, [locations, total, context, result]
    rangesCall,     \* convertLinesToRanges: the call made last, [lines, result]
    locationCall,   \* wrapSymbol(..).getLocation(): the call made last, [symbol, result]
    textEditsCall,  \* applyTextEdits: the call made last, [content, edits, result]
    workspaceSymbolsCache, \* LSPCacheManager.workspaceSymbolsCache: entries in insertion order
    cacheCalls      \* the setWorkspaceSymbols calls made so far

filesVars == <<openFiles, fileInfo, task, opsStarted, stdinOpen, sent>>
rpcVars == <<nextId, pendingRequests, callState, serverRequestHandlers,
             notificationHandlers, readerPc, readerExit, messagesRead, serverRequests,
             lastDispatch>>
transportVars == <<submitted, pipe, delivered, buffer, contentLength, listening,
                   received, readerError, ended>>
diagnosticsVars == <<diagnostics, notifications>>
\* The variables of the parts added after the first three.
initVars == <<initPc, initResponse, stdinLog>>
capabilityVars == <<fileWatchHandler, registrations, capabilityRequests>>
toolVars == <<tool>>
cleanupVars == <<cleanupPc, files, fileIndex, steps>>
childVars == <<childExited, exitObserved, timer, killed>>
debounceVars == <<now, lastEvent, eventsSeen, eventKeys, debounceTimers, armed, notifying>>
toolCallVars == <<displayCall, rangesCall, locationCall, textEditsCall>>
cacheVars == <<workspaceSymbolsCache, cacheCalls>>
earlyCallVars == <<globCall, editCall, definitionCall, symbolCall>>
functionVars == <<earlyCallVars, toolCallVars, cacheVars>>
watcherVars == <<watcherState, lastFileEvent, notifyingPath, walks>>
lateVars == <<functionVars, watcherVars>>
moreVars == <<toolVars, cleanupVars, childVars, debounceVars, lateVars>>
baseVars == <<diagnosticsVars, initVars, capabilityVars>>
extVars == <<baseVars, moreVars>>
vars == <<filesVars, rpcVars, transportVars, extVars>>

----------------------------------------------------------------------------
(* Bounds of the model *)

NumUris == 2
MaxTasks == 2
MaxOps == 5
\* The number of invocations in the runs that check one invocation's contract.
MaxContractOps == 3
\* config.debounceTime, in ticks.
DebounceTime == 2
\* The Changed events of one burst, and the ticks observed.
MaxEvents == 3
MaxTime == 6
MaxFileEvents == 2
MaxEdits == 2
MaxLines == 4
MaxSymbols == 2
MaxLineIndex == 6
MaxTotalLines == 4
MaxContextLines == 2
MaxPosition == 1
MaxLineNumber == 3
MaxSymbolCacheSize == 2
MaxCacheCalls == 4
MaxToolOps == 2








MaxWalks == 2

Uris == 1..NumUris
Tasks == 1..MaxTasks

----------------------------------------------------------------------------
(* Open-file registry: LSPClient.openFile / notifyChange / closeFile *)

DidOpen == "textDocument/didOpen"
DidChange == "textDocument/didChange"
DidClose == "textDocument/didClose"

IdleTask == [op |-> "none", pc |-> "idle", uri |-> 0, ref |-> 0, res |-> "none"]

\* Variant of has that never finds an entry.
has_never(uri) == FALSE

\* this.openFiles.has(uri)
has(uri) == openFiles[uri] # 0

\* isFileOpen, lines 315-318.
isFileOpen(uri) == has(uri)

\* The effect of stream.write on the messages the child receives: the frame is
\* accepted while stdin is open; after stdin.end() the write callback reports an
\* error and nothing reaches the child.
streamWrite(wire, msg) == IF stdinOpen THEN Append(wire, msg) ELSE wire

\* notify(method, params): createNotification + writeMessage, synchronous up to
\* and including stream.write; the returned promise settles later.
\* The record kept per message also notes the version the registry holds for the
\* uri at the moment of the write (0 when it holds no entry).
notify(method, uri, version) ==
    sent' = streamWrite(sent, [method |-> method, uri |-> uri, version |-> version,
                               registry |-> IF has(uri) THEN fileInfo'[openFiles[uri]] ELSE 0])

CanStart(t) == task[t].pc = "idle" /\ opsStarted < MaxOps

\* openFile, lines 229-239: registry check, then await readFile.
openFile(t, uri) ==
    /\ CanStart(t)
    /\ opsStarted' = opsStarted + 1
    /\ IF has(uri)
         THEN task' = [task EXCEPT ![t] = [IdleTask EXCEPT !.op = "openFile", !.uri = uri, !.res = "ok"]]
         ELSE task' = [task EXCEPT ![t] = [op |-> "openFile", pc |-> "read", uri |-> uri, ref |-> 0, res |-> "none"]]
    /\ UNCHANGED <<openFiles, fileInfo, stdinOpen, sent, rpcVars, transportVars, extVars>>

\* openFile, lines 239-253: readFile settled; on success didOpen (version 1) is
\* written and the method awaits notify; on failure it throws.
openFile_afterRead(t) ==
    /\ task[t].op = "openFile" /\ task[t].pc = "read"
    /\ \E readOk \in BOOLEAN :
         IF readOk
           THEN /\ UNCHANGED fileInfo
                /\ notify(DidOpen, task[t].uri, 1)
                /\ task' = [task EXCEPT ![t].pc = IF stdinOpen THEN "written" ELSE "writeFailed"]
           ELSE /\ task' = [task EXCEPT ![t].pc = "idle", ![t].res = "err"]
                /\ UNCHANGED <<fileInfo, sent>>
    /\ UNCHANGED <<openFiles, opsStarted, stdinOpen, rpcVars, transportVars, extVars>>

\* openFile, lines 253-256: notify settled; on success a fresh OpenFileInfo
\* {version: 1} is stored under the uri, on a failed write the method throws.
openFile_afterNotify(t) ==
    /\ task[t].op = "openFile" /\ task[t].pc \in {"written", "writeFailed"}
    /\ IF task[t].pc = "written"
         THEN /\ fileInfo' = Append(fileInfo, 1)
              /\ openFiles' = [openFiles EXCEPT ![task[t].uri] = Len(fileInfo) + 1]
              /\ task' = [task EXCEPT ![t].pc = "idle", ![t].res = "ok"]
         ELSE /\ task' = [task EXCEPT ![t].pc = "idle", ![t].res = "err"]
              /\ UNCHANGED <<openFiles, fileInfo>>
    /\ UNCHANGED <<opsStarted, stdinOpen, sent, rpcVars, transportVars, extVars>>

\* Variant of notifyChange_unopened that returns silently.
notifyChange_unopened_ignored == "ok"

\* notifyChange, lines 266-268: the uri has no entry, the method throws.
notifyChange_unopened == "err"

\* notifyChange, lines 263-271: the OpenFileInfo object is fetched from the
\* registry (throws when absent), then await readFile.
notifyChange(t, uri) ==
    /\ CanStart(t)
    /\ opsStarted' = opsStarted + 1
    /\ IF has(uri)
         THEN task' = [task EXCEPT ![t] = [op |-> "notifyChange", pc |-> "read", uri |-> uri,
                                            ref |-> openFiles[uri], res |-> "none"]]
         ELSE task' = [task EXCEPT ![t] = [IdleTask EXCEPT !.op = "notifyChange", !.uri = uri,
                                                       !.res = notifyChange_unopened]]
    /\ UNCHANGED <<openFiles, fileInfo, stdinOpen, sent, rpcVars, transportVars, extVars>>

\* notifyChange, lines 271-288: readFile settled; on success the version of the
\* fetched object is incremented and didChange carrying it is written.
notifyChange_afterRead(t) ==
    /\ task[t].op = "notifyChange" /\ task[t].pc = "read"
    /\ \E readOk \in BOOLEAN :
         IF readOk
           THEN /\ fileInfo' = [fileInfo EXCEPT ![task[t].ref] = @ + 1]
                /\ notify(DidChange, task[t].uri, fileInfo[task[t].ref] + 1)
                /\ task' = [task EXCEPT ![t].pc = IF stdinOpen THEN "written" ELSE "writeFailed"]
           ELSE /\ task' = [task EXCEPT ![t].pc = "idle", ![t].res = "err"]
                /\ UNCHANGED <<fileInfo, sent>>
    /\ UNCHANGED <<openFiles, opsStarted, stdinOpen, rpcVars, transportVars, extVars>>

\* notifyChange, line 288-289: notify settled, the method returns or throws.
notifyChange_afterNotify(t) ==
    /\ task[t].op = "notifyChange" /\ task[t].pc \in {"written", "writeFailed"}
    /\ task' = [task EXCEPT ![t].pc = "idle",
                            ![t].res = IF task[t].pc = "written" THEN "ok" ELSE "err"]
    /\ UNCHANGED <<openFiles, fileInfo, opsStarted, stdinOpen, sent, rpcVars, transportVars, extVars>>

\* closeFile, lines 295-307: registry check and, in the same synchronous
\* stretch, the write of didClose; then await notify.
closeFile(t, uri) ==
    /\ CanStart(t)
    /\ opsStarted' = opsStarted + 1
    /\ IF has(uri)
         THEN /\ UNCHANGED fileInfo
              /\ notify(DidClose, uri, 0)
              /\ task' = [task EXCEPT ![t] = [op |-> "closeFile",
                                               pc |-> IF stdinOpen THEN "written" ELSE "writeFailed",
                                               uri |-> uri, ref |-> 0, res |-> "none"]]
         ELSE /\ task' = [task EXCEPT ![t] = [IdleTask EXCEPT !.op = "closeFile", !.uri = uri, !.res = "ok"]]
              /\ UNCHANGED <<fileInfo, sent>>
    /\ UNCHANGED <<openFiles, stdinOpen, rpcVars, transportVars, extVars>>

\* Variant of closeFile_delete that leaves the entry in the registry.
closeFile_delete_keep(uri) == openFiles

\* closeFile, line 308: this.openFiles.delete(uri).
closeFile_delete(uri) == [openFiles EXCEPT ![uri] = 0]

\* closeFile, lines 307-309: notify settled; on success the entry is deleted.
closeFile_afterNotify(t) ==
    /\ task[t].op = "closeFile" /\ task[t].pc \in {"written", "writeFailed"}
    /\ IF task[t].pc = "written"
         THEN /\ openFiles' = closeFile_delete(task[t].uri)
              /\ task' = [task EXCEPT ![t].pc = "idle", ![t].res = "ok"]
         ELSE /\ task' = [task EXCEPT ![t].pc = "idle", ![t].res = "err"]
              /\ UNCHANGED openFiles
    /\ UNCHANGED <<fileInfo, opsStarted, stdinOpen, sent, rpcVars, transportVars, extVars>>

\* close(), line 418: this.stdin.end().
close_stdinEnd ==
    /\ stdinOpen
    /\ stdinOpen' = FALSE
    /\ UNCHANGED <<openFiles, fileInfo, task, opsStarted, sent, rpcVars, transportVars, extVars>>

----------------------------------------------------------------------------
(* Request correlation and the reader loop: LSPClient.call, handleMessages, *)
(* handleServerRequest, handleNotification, handleResponse                  *)

MaxCalls == 2
MaxRead == 2

\* A message's `method`: undefined, the empty string, or a method name.
NoMethod == "<undefined>"
EmptyMethod == ""
RequestMethod == "workspace/configuration"
NotificationMethod == "textDocument/publishDiagnostics"
Methods == {NoMethod, EmptyMethod, RequestMethod, NotificationMethod}

\* A message's `id`: undefined, null, a number, or the string of a number.
IdUndefined == [k |-> "undefined", v |-> 0]
IdNull == [k |-> "null", v |-> 0]
NumberId(n) == [k |-> "number", v |-> n]
StringId(n) == [k |-> "string", v |-> n]
Ids == {IdUndefined, IdNull, StringId(1)} \cup {NumberId(n) : n \in 1..(MaxCalls + 1)}

\* The ids tried on a message that names a method.
RequestIds == {IdUndefined, IdNull, StringId(1), NumberId(1)}

\* The messages the server may send: any combination of method and id; a
\* message without a method may carry an `error`.
ServerMessages == {m \in [method : Methods, id : Ids, error : BOOLEAN] :
                       /\ m.error => m.method = NoMethod
                       /\ m.method \in {RequestMethod, NotificationMethod} => m.id \in RequestIds}

NoDispatch == [msg |-> [method |-> NoMethod, id |-> IdUndefined, error |-> FALSE],
               sink |-> "none", completed |-> 0, handled |-> FALSE]

\* `message.method` used as a condition: undefined and '' are falsy.
truthy(method) == method # NoMethod /\ method # EmptyMethod

\* id.toString(): the key of the Pending Request Table; 1 and '1' give the same key.
toString(id) == id.v

MethodNotFound == -32601
InternalError == -32603

\* createResponse / createErrorResponse (part_000 317-337).
createResponse(id) == [id |-> id, kind |-> "result", code |-> 0]
createErrorResponse(id, code) == [id |-> id, kind |-> "error", code |-> code]

\* The methods of the default server-request handlers (lines 206-209).
DefaultRequestMethods == {"workspace/applyEdit", RequestMethod, "client/registerCapability"}

\* initialize, lines 205-210: the default handlers are registered
\* (registerServerRequestHandler, registerNotificationHandler, lines 131-140).
initialize_registerHandlers ==
    /\ RequestMethod \notin serverRequestHandlers
    /\ serverRequestHandlers' = serverRequestHandlers \cup DefaultRequestMethods
    /\ notificationHandlers' = notificationHandlers \cup {NotificationMethod}
    /\ UNCHANGED <<nextId, pendingRequests, callState, readerPc, readerExit, messagesRead,
                   serverRequests, lastDispatch, filesVars, transportVars, extVars>>

\* call, lines 347-360: the id is allocated, the resolver stored under its
\* string, the request written; call then awaits the write (throws when the
\* stream refuses it) and the response.
call ==
    /\ Len(callState) < MaxCalls
    /\ nextId' = nextId + 1
    /\ pendingRequests' = pendingRequests \cup {toString(NumberId(nextId))}
    /\ callState' = Append(callState, [id |-> nextId,
                                        st |-> IF stdinOpen THEN "waiting" ELSE "writeFailed"])
    /\ UNCHANGED <<serverRequestHandlers, notificationHandlers, readerPc, readerExit,
                   messagesRead, serverRequests, lastDispatch, filesVars,
                   transportVars, extVars>>

\* Variant of handleMessages_sink that tests for a response first and takes
\* every message with an id for one.
handleMessages_sink_idFirst(m) ==
    IF m.id # IdUndefined THEN "response"
    ELSE IF truthy(m.method) THEN "notification"
    ELSE "dropped"

\* handleMessages, lines 480-495: the sink of a message, tested in this order.
handleMessages_sink(m) ==
    IF truthy(m.method) /\ m.id # IdUndefined THEN "serverRequest"
    ELSE IF truthy(m.method) /\ m.id = IdUndefined THEN "notification"
    ELSE IF m.id # IdUndefined /\ ~truthy(m.method) THEN "response"
    ELSE "dropped"

\* Variant of handleMessages_continue in which the loop awaits handleServerRequest.
handleMessages_awaitsHandler(sink) ==
    IF sink = "serverRequest" THEN "awaitHandler" ELSE "read"

\* handleMessages, lines 481-482: handleServerRequest(message) is not awaited,
\* the loop continues with the next readMessage().
handleMessages_continue(sink) == "read"

\* Variant of handleServerRequest_response that reports a throwing handler as
\* a missing one.
handleServerRequest_response_notFound(id, outcome) ==
    IF outcome = "returned" THEN createResponse(id)
    ELSE createErrorResponse(id, MethodNotFound)

\* handleServerRequest, lines 513-531: the response for the outcome of the
\* handler lookup and of the handler.
handleServerRequest_response(id, outcome) ==
    IF outcome = "returned" THEN createResponse(id)
    ELSE IF outcome = "threw" THEN createErrorResponse(id, InternalError)
    ELSE createErrorResponse(id, MethodNotFound)

\* handleServerRequest, line 533: the response is handed to writeMessage; the
\* request's record counts the responses written for it and keeps the last.
writeReply(request, response) ==
    [request EXCEPT !.written = @ + 1, !.response = response, !.accepted = stdinOpen]

NoResponse == [id |-> IdUndefined, kind |-> "none", code |-> 0]

\* handleServerRequest, lines 510-516 and 525-533: the synchronous part run
\* inside the reader's turn. With a handler the handler is invoked and
\* awaited; without one the -32601 response is written at once.
handleServerRequest(m) ==
    LET registered == m.method \in serverRequestHandlers
        request == [id |-> m.id, registered |-> registered,
                    st |-> IF registered THEN "running" ELSE "noHandler",
                    written |-> 0, response |-> NoResponse, accepted |-> FALSE]
    IN /\ serverRequests' = Append(serverRequests,
              IF registered THEN request
              ELSE writeReply(request, handleServerRequest_response(m.id, "noHandler")))
       /\ readerPc' = handleMessages_continue("serverRequest")
       /\ lastDispatch' = [msg |-> m, sink |-> "serverRequest", completed |-> 0,
                           handled |-> registered]
       /\ UNCHANGED <<pendingRequests, callState, readerExit>>

\* handleNotification, lines 539-547: the handler, if any, runs synchronously.
handleNotification(m) ==
    /\ readerPc' = handleMessages_continue("notification")
    /\ lastDispatch' = [msg |-> m, sink |-> "notification", completed |-> 0,
                        handled |-> m.method \in notificationHandlers]
    /\ UNCHANGED <<pendingRequests, callState, serverRequests, readerExit>>

\* Variant of handleResponse_delete that leaves the entry in the table.
handleResponse_keep(key) == pendingRequests

\* handleResponse, line 557: this.pendingRequests.delete(idStr).
handleResponse_delete(key) == pendingRequests \ {key}

\* handleResponse, lines 552-562, and the rest of call, lines 365-374: the
\* resolver stored under the id's string is removed and invoked, which lets the
\* waiting call return the result or throw the error. message.id.toString()
\* throws on null; handleMessages catches it and leaves its loop.
handleResponse(m) ==
    IF m.id = IdNull
      THEN /\ readerPc' = "terminated"
           /\ readerExit' = "TypeError"
           /\ lastDispatch' = [msg |-> m, sink |-> "response", completed |-> 0,
                               handled |-> FALSE]
           /\ UNCHANGED <<pendingRequests, callState, serverRequests>>
      ELSE LET key == toString(m.id)
               found == key \in pendingRequests
           IN /\ pendingRequests' = IF found THEN handleResponse_delete(key) ELSE pendingRequests
              /\ callState' = [i \in 1..Len(callState) |->
                     IF found /\ callState[i].id = key /\ callState[i].st = "waiting"
                       THEN [callState[i] EXCEPT !.st = IF m.error THEN "threw" ELSE "returned"]
                       ELSE callState[i]]
              /\ readerPc' = handleMessages_continue("response")
              /\ lastDispatch' = [msg |-> m, sink |-> "response",
                                  completed |-> IF found THEN key ELSE 0,
                                  handled |-> found]
              /\ UNCHANGED <<serverRequests, readerExit>>

\* handleMessages, lines 476-496: one iteration of the loop on a message that
\* readMessage() resolved.
handleMessages ==
    /\ readerPc = "read"
    /\ messagesRead < MaxRead
    /\ \E m \in ServerMessages :
         LET sink == handleMessages_sink(m)
         IN IF sink = "serverRequest" THEN handleServerRequest(m)
            ELSE IF sink = "notification" THEN handleNotification(m)
            ELSE IF sink = "response" THEN handleResponse(m)
            ELSE /\ readerPc' = handleMessages_continue("dropped")
                 /\ lastDispatch' = [msg |-> m, sink |-> "dropped", completed |-> 0,
                                     handled |-> FALSE]
                 /\ UNCHANGED <<pendingRequests, callState, serverRequests, readerExit>>
    /\ messagesRead' = messagesRead + 1
    /\ UNCHANGED <<nextId, serverRequestHandlers, notificationHandlers, filesVars,
                   transportVars, extVars>>

\* The rejections of readMessage() (part_000 388-394, 425-428, 470-472).
TransportErrors == {"LSP connection closed (EOF)", "Missing Content-Length header",
                    "Failed to parse LSP message"}

\* handleMessages, lines 497-503: readMessage() rejected; the error is logged
\* and the loop is left.
handleMessages_catch ==
    /\ readerPc = "read"
    /\ \E err \in TransportErrors : readerExit' = err
    /\ readerPc' = "terminated"
    /\ UNCHANGED <<nextId, pendingRequests, callState, serverRequestHandlers,
                   notificationHandlers, messagesRead, serverRequests,
                   lastDispatch, filesVars, transportVars, extVars>>

\* handleServerRequest, lines 516-517 and 533: the handler's promise resolved.
handler_returns(r) ==
    /\ serverRequests[r].st = "running"
    /\ serverRequests' = [serverRequests EXCEPT ![r] =
           writeReply([@ EXCEPT !.st = "returned"],
                      handleServerRequest_response(serverRequests[r].id, "returned"))]
    /\ UNCHANGED <<nextId, pendingRequests, callState, serverRequestHandlers,
                   notificationHandlers, readerPc, readerExit, messagesRead,
                   lastDispatch, filesVars, transportVars, extVars>>

\* handleServerRequest, lines 518-524 and 533: the handler's promise rejected.
handler_throws(r) ==
    /\ serverRequests[r].st = "running"
    /\ serverRequests' = [serverRequests EXCEPT ![r] =
           writeReply([@ EXCEPT !.st = "threw"],
                      handleServerRequest_response(serverRequests[r].id, "threw"))]
    /\ UNCHANGED <<nextId, pendingRequests, callState, serverRequestHandlers,
                   notificationHandlers, readerPc, readerExit, messagesRead,
                   lastDispatch, filesVars, transportVars, extVars>>

----------------------------------------------------------------------------
(* Framing transport: writeMessage and MessageReader (part_000 342-475) *)

MaxMessages == 2
\* The largest chunk, in bytes, that one 'data' event carries.
MaxChunk == 70

\* Characters. "e'" stands for a non-ASCII character (two bytes in UTF-8, the
\* bytes "c3" and "a9"); every other character is one byte, written as itself.
CR == "CR"
LF == "LF"
Accented == "e'"
Replacement == "U+FFFD"

\* The texts (a method name, a document text) carried by the messages.
Texts == {<<"a">>, <<Accented>>}

\* createRequest / createNotification / createResponse (part_000 294-323) at
\* the level of the transport: what JSON.stringify will serialise.
createRequestMessage(id, text) == [kind |-> "request", id |-> id, text |-> text]
createNotificationMessage(text) == [kind |-> "notification", id |-> 0, text |-> text]
createResponseMessage(id) == [kind |-> "response", id |-> id, text |-> <<>>]

TransportMessages ==
    {createRequestMessage(id, t) : id \in 1..(MaxMessages + 1), t \in Texts}
        \cup {createNotificationMessage(t) : t \in Texts}
        \cup {createResponseMessage(id) : id \in 1..(MaxMessages + 1)}

Digits == <<"0", "1", "2", "3", "4", "5", "6", "7", "8", "9">>

\* `${contentLength}`: the decimal digits of a natural number.
RECURSIVE ToDecimal(_)
ToDecimal(n) == IF n < 10 THEN <<Digits[n + 1]>>
                ELSE ToDecimal(n \div 10) \o <<Digits[(n % 10) + 1]>>

DigitValue(c) == CHOOSE d \in 0..9 : Digits[d + 1] = c
IsDigit(c) == \E d \in 0..9 : Digits[d + 1] = c

\* The value parseInt gives when the text does not start with a digit.
NaN == -2
isNaN(x) == x = NaN
\* x < y on numbers: false when either is NaN.
lt(x, y) == ~isNaN(x) /\ ~isNaN(y) /\ x < y

\* parseInt(text, 10): the number written by the leading digits.
RECURSIVE parseDigits(_, _)
parseDigits(s, acc) ==
    IF s = <<>> \/ ~IsDigit(Head(s)) THEN acc
    ELSE parseDigits(Tail(s), acc * 10 + DigitValue(Head(s)))

parseInt(s) == IF s = <<>> \/ ~IsDigit(Head(s)) THEN NaN ELSE parseDigits(s, 0)

\* JSON.stringify(message), compact: {i:1,m:TEXT} / {m:TEXT} / {i:1,r}.
stringify(m) ==
    IF m.kind = "request"
      THEN <<"{", "i", ":">> \o ToDecimal(m.id) \o <<",", "m", ":">> \o m.text \o <<"}">>
    ELSE IF m.kind = "notification"
      THEN <<"{", "m", ":">> \o m.text \o <<"}">>
    ELSE <<"{", "i", ":">> \o ToDecimal(m.id) \o <<",", "r", "}">>

ParseError == [kind |-> "SyntaxError", id |-> 0, text |-> <<>>]

\* JSON.parse(content): the message whose serialisation is content; throws otherwise.
parse(content) ==
    IF \E m \in TransportMessages : stringify(m) = content
      THEN CHOOSE m \in TransportMessages : stringify(m) = content
      ELSE ParseError

\* The UTF-8 bytes of a string.
RECURSIVE utf8(_)
utf8(s) == IF s = <<>> THEN <<>>
           ELSE (IF Head(s) = Accented THEN <<"c3", "a9">> ELSE <<Head(s)>>) \o utf8(Tail(s))

\* buffer.toString('utf8'): a byte that is no complete character decodes to U+FFFD.
RECURSIVE decode(_)
decode(b) ==
    IF b = <<>> THEN <<>>
    ELSE IF Len(b) >= 2 /\ b[1] = "c3" /\ b[2] = "a9" THEN <<Accented>> \o decode(SubSeq(b, 3, Len(b)))
    ELSE IF b[1] \in {"c3", "a9"} THEN <<Replacement>> \o decode(Tail(b))
    ELSE <<b[1]>> \o decode(Tail(b))

HeaderName == <<"C", "o", "n", "t", "e", "n", "t", "-", "L", "e", "n", "g", "t", "h", ":", " ">>
Separator == <<CR, LF, CR, LF>>

\* Variant of byteLength that counts characters (content.length).
byteLength_characters(content) == Len(content)

\* Buffer.byteLength(content, 'utf8'), part_000 line 346.
byteLength(content) == Len(utf8(content))

\* Variant of writeMessage that puts the new frame in front of the bytes still queued.
writeMessage_unordered(stream, message) ==
    LET content == stringify(message)
    IN utf8(HeaderName \o ToDecimal(byteLength(content)) \o Separator \o content) \o stream

\* writeMessage, part_000 lines 342-366: header and content in one stream.write.
writeMessage(stream, message) ==
    LET content == stringify(message)
        contentLength_ == byteLength(content)
        header == HeaderName \o ToDecimal(contentLength_) \o Separator
        fullMessage == header \o content
    IN stream \o utf8(fullMessage)

\* buffer.indexOf(pattern): the first position (from 0) of pattern, -1 if none.
indexOf(b, pattern) ==
    LET hits == {i \in 0..(Len(b) - Len(pattern)) : SubSeq(b, i + 1, i + Len(pattern)) = pattern}
    IN IF hits = {} THEN -1 ELSE CHOOSE i \in hits : \A j \in hits : i <= j

\* buffer.slice(from) and buffer.slice(0, to).
sliceFrom(b, from) == SubSeq(b, from + 1, Len(b))
sliceTo(b, to) == SubSeq(b, 1, to)

\* headers.split('\r\n')
RECURSIVE split(_)
split(s) ==
    LET i == indexOf(s, <<CR, LF>>)
    IN IF i < 0 THEN <<s>> ELSE <<sliceTo(s, i)>> \o split(sliceFrom(s, i + 2))

startsWith(line, prefix) == Len(line) >= Len(prefix) /\ sliceTo(line, Len(prefix)) = prefix

\* tryParse lines 422-427: the loop over the header lines; the last
\* Content-Length line decides.
RECURSIVE headerContentLength(_, _)
headerContentLength(lines, current) ==
    IF lines = <<>> THEN current
    ELSE headerContentLength(Tail(lines),
             IF startsWith(Head(lines), HeaderName)
               THEN parseInt(sliceFrom(Head(lines), 16))
               ELSE current)

ParseResult(b, cl, outcome, message, error) ==
    [buffer |-> b, contentLength |-> cl, outcome |-> outcome, message |-> message, error |-> error]

\* tryParse, part_000 lines 408-474, on the reader's buffer and contentLength:
\* the new buffer and contentLength and whether the pending readMessage()
\* keeps waiting, resolves with a message or rejects.
tryParse(b, cl) ==
    LET needHeaders == cl < 0
        headerEnd == indexOf(b, Separator)
    IN IF needHeaders /\ headerEnd < 0
         THEN ParseResult(b, cl, "wait", ParseError, "none")
       ELSE
         LET cl1 == IF needHeaders
                      THEN headerContentLength(split(sliceTo(b, headerEnd)), cl)
                      ELSE cl
             b1 == IF needHeaders THEN sliceFrom(b, headerEnd + 4) ELSE b
         IN IF needHeaders /\ lt(cl1, 0)
              THEN ParseResult(b, cl1, "reject", ParseError, "Missing Content-Length header")
            ELSE IF lt(Len(b1), cl1)
              THEN ParseResult(b1, cl1, "wait", ParseError, "none")
            ELSE
              LET n == IF isNaN(cl1) THEN 0 ELSE cl1
                  content == decode(sliceTo(b1, n))
                  message == parse(content)
              IN IF message = ParseError
                   THEN ParseResult(sliceFrom(b1, n), -1, "reject", ParseError,
                                    "Failed to parse LSP message")
                   ELSE ParseResult(sliceFrom(b1, n), -1, "resolve", message, "none")

\* The reader's state after a tryParse: on resolve the listeners are removed
\* and the message is handed to the caller, on reject the caller gets the error.
afterTryParse(r) ==
    /\ buffer' = r.buffer
    /\ contentLength' = r.contentLength
    /\ listening' = (r.outcome # "resolve")
    /\ received' = IF r.outcome = "resolve" THEN Append(received, r.message) ELSE received
    /\ readerError' = IF r.outcome = "reject" THEN r.error ELSE readerError

CanWrite == Len(submitted) < MaxMessages /\ ~ended

\* call, lines 347-360: the request is created with the next id and written.
call_writeMessage(text) ==
    /\ CanWrite
    /\ nextId' = nextId + 1
    /\ submitted' = Append(submitted, createRequestMessage(nextId, text))
    /\ pipe' = writeMessage(pipe, createRequestMessage(nextId, text))
    /\ UNCHANGED <<delivered, buffer, contentLength, listening, received, readerError, ended,
                   pendingRequests, callState, serverRequestHandlers, notificationHandlers,
                   readerPc, readerExit, messagesRead, serverRequests, lastDispatch, filesVars, extVars>>

\* notify, lines 380-384: the notification is created and written.
notify_writeMessage(text) ==
    /\ CanWrite
    /\ submitted' = Append(submitted, createNotificationMessage(text))
    /\ pipe' = writeMessage(pipe, createNotificationMessage(text))
    /\ UNCHANGED <<delivered, buffer, contentLength, listening, received, readerError, ended,
                   rpcVars, filesVars, extVars>>

\* handleServerRequest, lines 517-533: the response is created and written.
handleServerRequest_writeMessage(id) ==
    /\ CanWrite
    /\ submitted' = Append(submitted, createResponseMessage(id))
    /\ pipe' = writeMessage(pipe, createResponseMessage(id))
    /\ UNCHANGED <<delivered, buffer, contentLength, listening, received, readerError, ended,
                   rpcVars, filesVars, extVars>>

\* readMessage, part_000 lines 380-403: the listeners are attached and the
\* buffer is parsed at once. The reader loop calls it again in the turn in
\* which the previous call resolved.
readMessage ==
    /\ ~listening
    /\ readerError = "none"
    /\ afterTryParse(tryParse(buffer, contentLength))
    /\ UNCHANGED <<submitted, pipe, delivered, ended, rpcVars, filesVars, extVars>>

\* onData, part_000 lines 382-385: a chunk of k bytes arrives. A chunk is
\* emitted once per turn of the event loop and the reader loop (client.ts
\* 476-477) calls readMessage() again in the turn in which the previous call
\* resolved, so a listener is attached whenever a chunk is emitted.
onData(k) ==
    /\ listening
    /\ readerError = "none"
    /\ k \in 1..Len(pipe)
    /\ pipe' = sliceFrom(pipe, k)
    /\ delivered' = delivered \o sliceTo(pipe, k)
    /\ afterTryParse(tryParse(buffer \o sliceTo(pipe, k), contentLength))
    /\ UNCHANGED <<submitted, ended, rpcVars, filesVars, extVars>>

\* onEnd, part_000 lines 387-389: the stream ends after its last byte.
onEnd ==
    /\ listening
    /\ readerError = "none"
    /\ pipe = <<>>
    /\ ~ended
    /\ ended' = TRUE
    /\ readerError' = "LSP connection closed (EOF)"
    /\ UNCHANGED <<submitted, pipe, delivered, buffer, contentLength, listening, received,
                   rpcVars, filesVars, extVars>>

----------------------------------------------------------------------------
(* Diagnostics store: handleDiagnostics, getFileDiagnostics (client.ts 339-341, 614-623) *)

MaxNotifications == 3

\* params without a `uri`.
NoUri == 0

\* The diagnostics a notification may list.
DiagnosticLists == {<<>>, <<"d1">>, <<"d2">>, <<"d1", "d2">>}

\* The params of a textDocument/publishDiagnostics notification; `diagnostics`
\* may be missing.
PublishParams ==
    {p \in [uri : Uris \cup {NoUri}, hasDiagnostics : BOOLEAN, diagnostics : DiagnosticLists] :
        ~p.hasDiagnostics => p.diagnostics = <<>>}

NoEntry == [present |-> FALSE, list |-> <<>>]

\* Variant of handleDiagnostics that adds the new list to the stored one.
handleDiagnostics_merge(params) ==
    IF params.uri = NoUri THEN diagnostics
    ELSE [diagnostics EXCEPT ![params.uri] =
             [present |-> TRUE,
              list |-> @.list \o (IF params.hasDiagnostics THEN params.diagnostics ELSE <<>>)]]

\* handleDiagnostics, lines 614-623: the store after the handler ran on params.
handleDiagnostics(params) ==
    IF params.uri = NoUri THEN diagnostics
    ELSE [diagnostics EXCEPT ![params.uri] =
             [present |-> TRUE,
              list |-> IF params.hasDiagnostics THEN params.diagnostics ELSE <<>>]]

\* getFileDiagnostics, lines 339-341.
getFileDiagnostics(uri) ==
    IF diagnostics[uri].present THEN diagnostics[uri].list ELSE <<>>

\* handleMessages and handleNotification (lines 486-488, 539-547) on a
\* textDocument/publishDiagnostics notification: the handler runs if it is
\* registered, otherwise the notification is only logged.
handleNotification_publishDiagnostics(params) ==
    /\ Len(notifications) < MaxNotifications
    /\ readerPc = "read"
    /\ LET handled == NotificationMethod \in notificationHandlers
       IN /\ diagnostics' = IF handled THEN handleDiagnostics(params) ELSE diagnostics
          /\ notifications' = Append(notifications, [params |-> params, handled |-> handled])
    /\ UNCHANGED <<filesVars, rpcVars, transportVars, initVars, capabilityVars, moreVars>>

InitDiagnostics ==
    /\ diagnostics = [u \in Uris |-> NoEntry]
    /\ notifications = <<>>

----------------------------------------------------------------------------
(* initialize (client.ts 145-215), with the reader loop dispatching meanwhile *)

MaxInitReads == 3

InitializeMethod == "initialize"
InitializedMethod == "initialized"

\* What is written to the child's stdin: a request, a notification or the
\* response to a server request.
WrittenRequest(method, id) == [kind |-> "request", method |-> method, id |-> id, code |-> 0]
WrittenNotification(method) == [kind |-> "notification", method |-> method, id |-> 0, code |-> 0]
WrittenResponse(response) ==
    [kind |-> response.kind, method |-> NoMethod, id |-> response.id.v, code |-> response.code]

\* writeMessage on the child's stdin: the stream takes the message while it is open.
stdinWrite(message) ==
    stdinLog' = IF stdinOpen THEN Append(stdinLog, message) ELSE stdinLog

\* Variant of call_throws in which an error response is returned like a result.
call_neverThrows(response) == FALSE

\* call, lines 370-373: a response with an `error` makes call() throw.
call_throws(response) == response = "error"

\* initialize, lines 145-203, and call, lines 347-360: the request is created
\* with the next id, its resolver stored and the request written. start()
\* (uri.ts 408-411) calls initialize in the turn in which the client was
\* constructed, before the reader loop has read anything.
initialize_call ==
    /\ initPc = "notStarted"
    /\ nextId' = nextId + 1
    /\ pendingRequests' = pendingRequests \cup {toString(NumberId(nextId))}
    /\ stdinWrite(WrittenRequest(InitializeMethod, nextId))
    /\ initPc' = IF stdinOpen THEN "awaitResponse" ELSE "failed"
    /\ UNCHANGED <<initResponse, callState, serverRequestHandlers, notificationHandlers,
                   readerPc, readerExit, messagesRead, serverRequests, lastDispatch,
                   filesVars, transportVars, diagnosticsVars,
                   capabilityVars, moreVars>>

\* initialize, lines 203-206, and call, lines 365-374: the response was
\* dispatched; on an error call() throws and initialize() with it, otherwise
\* the `initialized` notification is written.
initialize_afterCall ==
    /\ initPc = "awaitResponse"
    /\ initResponse # "none"
    /\ IF call_throws(initResponse)
         THEN /\ initPc' = "failed"
              /\ UNCHANGED stdinLog
         ELSE /\ stdinWrite(WrittenNotification(InitializedMethod))
              /\ initPc' = IF stdinOpen THEN "awaitNotify" ELSE "failed"
    /\ UNCHANGED <<initResponse, filesVars, rpcVars, transportVars, diagnosticsVars,
                   capabilityVars, moreVars>>

\* initialize, lines 206-215: the write of `initialized` completed; the
\* default handlers are registered and the result is returned.
initialize_afterNotify ==
    /\ initPc = "awaitNotify"
    /\ serverRequestHandlers' = serverRequestHandlers \cup DefaultRequestMethods
    /\ notificationHandlers' = notificationHandlers \cup {NotificationMethod}
    /\ initPc' = "done"
    /\ UNCHANGED <<initResponse, stdinLog, nextId, pendingRequests, callState, readerPc,
                   readerExit, messagesRead, serverRequests, lastDispatch,
                   filesVars, transportVars, diagnosticsVars,
                   capabilityVars, moreVars>>

CanReadDuringInitialize ==
    /\ initPc # "notStarted"
    /\ readerPc = "read"
    /\ messagesRead < MaxInitReads

\* handleMessages and handleResponse (lines 492-494, 552-562) on a response:
\* the resolver stored under the id, if any, is removed and invoked.
handleMessages_response(id, isError) ==
    /\ CanReadDuringInitialize
    /\ messagesRead' = messagesRead + 1
    /\ LET key == toString(id)
       IN IF key \in pendingRequests
            THEN /\ pendingRequests' = handleResponse_delete(key)
                 /\ initResponse' = IF isError THEN "error" ELSE "result"
            ELSE UNCHANGED <<pendingRequests, initResponse>>
    /\ UNCHANGED <<initPc, stdinLog, nextId, callState, serverRequestHandlers,
                   notificationHandlers, readerPc, readerExit, serverRequests, lastDispatch,
                   filesVars, transportVars, diagnosticsVars,
                   capabilityVars, moreVars>>

\* handleMessages and handleServerRequest (lines 480-482, 509-534) on a server
\* request: the response is written, -32601 when no handler is registered. The
\* default handlers return at once.
handleMessages_serverRequest(method, id) ==
    /\ CanReadDuringInitialize
    /\ messagesRead' = messagesRead + 1
    /\ stdinWrite(WrittenResponse(handleServerRequest_response(id,
           IF method \in serverRequestHandlers THEN "returned" ELSE "noHandler")))
    /\ UNCHANGED <<initPc, initResponse, nextId, pendingRequests, callState,
                   serverRequestHandlers, notificationHandlers, readerPc, readerExit,
                   serverRequests, lastDispatch, filesVars, transportVars, diagnosticsVars,
                   capabilityVars, moreVars>>

InitInitialize ==
    /\ initPc = "notStarted"
    /\ initResponse = "none"
    /\ stdinLog = <<>>

----------------------------------------------------------------------------
(* client/registerCapability: handleRegisterCapability (client.ts 586-600),  *)
(* registerFileWatchHandler (66-73), WorkspaceWatcher.addRegistrations       *)
(* (part_007 111-125), MCPLanguageServer.start (uri.ts 402-417)              *)

RegisterCapabilityMethod == "client/registerCapability"
DidChangeWatchedFilesMethod == "workspace/didChangeWatchedFiles"
OtherRegistrationMethod == "textDocument/didSave"

\* The watcher lists a registration may carry (registerOptions.watchers; a
\* registration without registerOptions counts as the empty list, line 593).
WatcherLists == {<<>>, <<"**/*.ts">>, <<"**/*.go", "*.mod">>}

Registrations ==
    [method : {DidChangeWatchedFilesMethod}, watchers : WatcherLists]
        \cup {[method |-> OtherRegistrationMethod, watchers |-> <<"**/*.ts">>]}

\* params.registrations: up to two registrations; the empty sequence also
\* stands for params without registrations.
RegistrationParams ==
    {<<>>} \cup {<<r>> : r \in Registrations}
           \cup {<<r1, r2>> : r1 \in Registrations, r2 \in Registrations}

\* Variant of addRegistrations that keeps only the latest watcher list.
addRegistrations_replace(stored, watchers) == watchers

\* addRegistrations, part_007 lines 111-121: every watcher is pushed.
addRegistrations(stored, watchers) == stored \o watchers

\* handleRegisterCapability, lines 590-597: the loop over params.registrations,
\* from the watcher's registrations `stored` on.
RECURSIVE handleRegisterCapability_forward(_, _)
handleRegisterCapability_forward(regs, stored) ==
    IF regs = <<>> THEN stored
    ELSE handleRegisterCapability_forward(Tail(regs),
             IF Head(regs).method = DidChangeWatchedFilesMethod /\ fileWatchHandler
               THEN addRegistrations(stored, Head(regs).watchers)
               ELSE stored)

\* start, uri.ts lines 411-417, and watchWorkspace, part_007 lines 128-142:
\* initialize() has returned; the watcher is created and registers its hook.
start_afterInitialize ==
    /\ initPc = "done"
    /\ ~fileWatchHandler
    /\ fileWatchHandler' = TRUE
    /\ UNCHANGED <<registrations, capabilityRequests, filesVars, rpcVars, transportVars,
                   diagnosticsVars, initVars, moreVars>>

\* initialize() returns and start() goes on to registerFileWatchHandler without
\* waiting for anything that is not already settled: both run in the turn of
\* the event loop in which the write of `initialized` completed, and the
\* reader loop dispatches the next message only in a later turn.
TurnComplete == ~(initPc = "done" /\ ~fileWatchHandler)

\* handleMessages and handleServerRequest (lines 480-482, 509-534) on a
\* client/registerCapability request: without a handler the error -32601 is
\* written; with one, handleRegisterCapability runs and null is returned.
handleMessages_registerCapability(id, regs) ==
    /\ CanReadDuringInitialize
    /\ TurnComplete
    /\ messagesRead' = messagesRead + 1
    /\ LET registered == RegisterCapabilityMethod \in serverRequestHandlers
           response == handleServerRequest_response(id,
                           IF registered THEN "returned" ELSE "noHandler")
       IN /\ registrations' = IF registered
                                THEN handleRegisterCapability_forward(regs, registrations)
                                ELSE registrations
          /\ stdinWrite(WrittenResponse(response))
          /\ capabilityRequests' = Append(capabilityRequests,
                 [registrations |-> regs, response |-> response.kind])
    /\ UNCHANGED <<fileWatchHandler, initPc, initResponse, nextId, pendingRequests, callState,
                   serverRequestHandlers, notificationHandlers, readerPc, readerExit,
                   serverRequests, lastDispatch, filesVars, transportVars, diagnosticsVars, moreVars>>

InitCapability ==
    /\ fileWatchHandler = FALSE
    /\ registrations = <<>>
    /\ capabilityRequests = <<>>

----------------------------------------------------------------------------
(* Tools: getHoverInfo, findReferences, renameSymbol *)

HoverMethod == "textDocument/hover"
ReferencesMethod == "textDocument/references"
RenameMethod == "textDocument/rename"
ToolMethods == {HoverMethod, ReferencesMethod, RenameMethod}

NoTool == [method |-> "none", uri |-> NoUri]

\* A tool is entered: the uri is computed from its arguments (part_003 22,
\* part_004 62, rename.ts 29); nothing of the client is read yet.
tool_begin(t, method, uri) ==
    /\ tool[t] = NoTool
    /\ task[t].pc = "idle"
    /\ tool' = [tool EXCEPT ![t] = [method |-> method, uri |-> uri]]
    /\ task' = [task EXCEPT ![t] = IdleTask]
    /\ UNCHANGED <<openFiles, fileInfo, opsStarted, stdinOpen, sent, rpcVars, transportVars,
                   baseVars, lateVars, cleanupVars, childVars, debounceVars>>

\* The tool's `await client.openFile(filePath)` is pending or about to be issued.
tool_canOpen(t) == tool[t] # NoTool /\ task[t].op = "none"

\* The tool's openFile has settled and the tool has not resumed yet.
tool_resuming(t) == tool[t] # NoTool /\ task[t].op = "openFile" /\ task[t].pc = "idle"

\* client.call(method, params), lines 346-361, up to and including the
\* synchronous stream.write of the request.
call_write(method, uri) ==
    sent' = streamWrite(sent, [method |-> method, uri |-> uri, version |-> 0,
                               registry |-> IF uri \in Uris /\ has(uri) THEN fileInfo[openFiles[uri]]
                                                                  ELSE 0])

\* The tool resumes after openFile: a failed openFile ends the tool (hover,
\* rename: throw; references: continue with the next symbol); otherwise the
\* request is created and written (part_003 24-40, part_004 64-79,
\* rename.ts 31-49; client.ts 847-858).
tool_afterOpenFile(t) ==
    /\ tool_resuming(t)
    /\ IF task[t].res = "ok" THEN call_write(tool[t].method, tool[t].uri)
                             ELSE sent' = sent
    /\ tool' = [tool EXCEPT ![t] = NoTool]
    /\ task' = [task EXCEPT ![t] = IdleTask]
    /\ UNCHANGED <<openFiles, fileInfo, opsStarted, stdinOpen, rpcVars, transportVars, baseVars, lateVars,
                   cleanupVars, childVars, debounceVars>>

\* A tool resumes in the turn of the event loop in which its openFile settled:
\* no other continuation runs between the two.
NoToolResuming == \A t \in Tasks : ~tool_resuming(t)

InitTools == tool = [t \in Tasks |-> NoTool]

----------------------------------------------------------------------------
(* Cleanup: closeAllFiles -> shutdown -> exit -> close *)

ShutdownMethod == "shutdown"
ExitMethod == "exit"

\* The task that runs cleanup(); the others keep serving tools and the watcher.
CleanupTask == 1

\* uriToPath / pathToUri (uri.ts 11-20): a path is a value of its own kind, and
\* URI.file(p).toString() gives back the uri whose fsPath is p.
uriToPath(uri) == [fsPath |-> uri]
pathToUri(path) == path.fsPath

\* Array.from(this.openFiles.keys()): the keys in insertion order, which is the
\* order in which their OpenFileInfo objects were created.
RECURSIVE keysInOrder(_)
keysInOrder(remaining) ==
    IF remaining = {} THEN <<>>
    ELSE LET first == CHOOSE u \in remaining : \A v \in remaining : openFiles[u] <= openFiles[v]
         IN <<first>> \o keysInOrder(remaining \ {first})

settled(step, uri, error) == Append(steps, [step |-> step, uri |-> uri, error |-> error])

\* cleanup, uri.ts 438-444, and closeAllFiles, line 324: the snapshot is taken.
cleanup_begin ==
    /\ cleanupPc = "notStarted"
    /\ task[CleanupTask].pc = "idle"
    /\ cleanupPc' = "closeAllFiles"
    /\ files' = keysInOrder({u \in Uris : has(u)})
    /\ fileIndex' = 1
    /\ task' = [task EXCEPT ![CleanupTask] = IdleTask]
    /\ UNCHANGED <<steps, openFiles, fileInfo, opsStarted, stdinOpen, sent, rpcVars,
                   transportVars, baseVars, lateVars, toolVars, childVars, debounceVars>>

\* closeAllFiles, lines 325-328: the loop is at a file and has not called
\* closeFile for it yet.
closeAllFiles_atFile ==
    /\ cleanupPc = "closeAllFiles"
    /\ fileIndex <= Len(files)
    /\ task[CleanupTask].op = "none"

\* Variant of closeAllFiles_afterError without the try/catch: the error leaves the loop.
closeAllFiles_rethrow(i) == Len(files) + 1

\* closeAllFiles, lines 329-331: the error is caught and logged, the loop goes on.
closeAllFiles_afterError(i) == i + 1

\* closeAllFiles, lines 325-332: the awaited closeFile has settled.
closeAllFiles_next ==
    /\ cleanupPc = "closeAllFiles"
    /\ task[CleanupTask].op = "closeFile" /\ task[CleanupTask].pc = "idle"
    /\ steps' = settled("closeFile", task[CleanupTask].uri, task[CleanupTask].res = "err")
    /\ fileIndex' = IF task[CleanupTask].res = "err" THEN closeAllFiles_afterError(fileIndex)
                                                    ELSE fileIndex + 1
    /\ task' = [task EXCEPT ![CleanupTask] = IdleTask]
    /\ UNCHANGED <<cleanupPc, files, openFiles, fileInfo, opsStarted, stdinOpen, sent, rpcVars,
                   transportVars, baseVars, lateVars, toolVars, childVars, debounceVars>>

\* closeAllFiles returns (line 333) and cleanup goes on to shutdown (uri.ts 447-448).
closeAllFiles_return ==
    /\ cleanupPc = "closeAllFiles"
    /\ fileIndex > Len(files)
    /\ task[CleanupTask].op = "none"
    /\ cleanupPc' = "shutdown"
    /\ UNCHANGED <<files, fileIndex, steps, filesVars, rpcVars, transportVars, baseVars, lateVars,
                   toolVars, childVars, debounceVars>>

\* shutdown, lines 389-393, and call, lines 346-361: the request is written;
\* a failed write rejects the call, which shutdown catches and logs (395-397).
shutdown_call ==
    /\ cleanupPc = "shutdown"
    /\ call_write(ShutdownMethod, NoUri)
    /\ IF stdinOpen
         THEN cleanupPc' = "shutdownWait" /\ steps' = steps
         ELSE cleanupPc' = "exit" /\ steps' = settled(ShutdownMethod, NoUri, TRUE)
    /\ UNCHANGED <<files, fileIndex, openFiles, fileInfo, task, opsStarted, stdinOpen, rpcVars,
                   transportVars, baseVars, lateVars, toolVars, childVars, debounceVars>>

\* shutdown, lines 392-397: the response arrives; call throws on an error
\* response (client.ts 369-372), shutdown catches and logs it.
shutdown_afterCall(isError) ==
    /\ cleanupPc = "shutdownWait"
    /\ ~childExited
    /\ cleanupPc' = "exit"
    /\ steps' = settled(ShutdownMethod, NoUri, isError)
    /\ UNCHANGED <<files, fileIndex, filesVars, rpcVars, transportVars, baseVars, lateVars, toolVars,
                   childVars, debounceVars>>

\* exit, lines 402-405: notify('exit') writes the notification.
exit_notify ==
    /\ cleanupPc = "exit"
    /\ call_write(ExitMethod, NoUri)
    /\ cleanupPc' = IF stdinOpen THEN "exitWait" ELSE "exitFailed"
    /\ UNCHANGED <<files, fileIndex, steps, openFiles, fileInfo, task, opsStarted, stdinOpen,
                   rpcVars, transportVars, baseVars, lateVars, toolVars, childVars, debounceVars>>

\* exit, lines 404-408: the write has settled; a failure is caught and logged.
exit_afterNotify ==
    /\ cleanupPc \in {"exitWait", "exitFailed"}
    /\ steps' = settled(ExitMethod, NoUri, cleanupPc = "exitFailed")
    /\ cleanupPc' = "close"
    /\ UNCHANGED <<files, fileIndex, filesVars, rpcVars, transportVars, baseVars, lateVars, toolVars,
                   childVars, debounceVars>>

\* close, lines 414-432, up to the await: stdin is ended, the grace timer is
\* armed and the 'exit' listener is registered.
close ==
    /\ cleanupPc = "close"
    /\ stdinOpen' = FALSE
    /\ timer' = "armed"
    /\ steps' = settled("close", NoUri, FALSE)
    /\ cleanupPc' = "closeWait"
    /\ UNCHANGED <<files, fileIndex, openFiles, fileInfo, task, opsStarted, sent, rpcVars,
                   transportVars, baseVars, lateVars, toolVars, childExited, exitObserved, killed,
                   debounceVars>>

\* The listener of close() is registered and has not run (once).
close_listening == timer # "none" /\ ~exitObserved

\* Variant of onExit_clearTimeout that leaves the timer armed.
onExit_keepTimer(tm) == tm

\* close, line 428: clearTimeout(timeout); without effect on a timer that fired.
onExit_clearTimeout(tm) == IF tm = "armed" THEN "cleared" ELSE tm

\* The child exits (on `exit`, by a crash, or killed): writes to its stdin fail
\* from now on; the constructor's listener logs (121-123); the listener of
\* close(), if registered, clears the timer and resolves (427-430).
child_exit ==
    /\ ~childExited
    /\ childExited' = TRUE
    /\ stdinOpen' = FALSE
    /\ IF close_listening
         THEN /\ exitObserved' = TRUE
              /\ timer' = onExit_clearTimeout(timer)
              /\ cleanupPc' = "done"
         ELSE UNCHANGED <<exitObserved, timer, cleanupPc>>
    /\ UNCHANGED <<killed, files, fileIndex, steps, openFiles, fileInfo, task, opsStarted, sent,
                   rpcVars, transportVars, baseVars, lateVars, toolVars, debounceVars>>

\* close, lines 422-426: the grace timer fires: SIGKILL, resolve.
close_timeout ==
    /\ timer = "armed"
    /\ timer' = "fired"
    /\ killed' = TRUE
    /\ cleanupPc' = "done"
    /\ UNCHANGED <<childExited, exitObserved, files, fileIndex, steps, filesVars, rpcVars,
                   transportVars, baseVars, lateVars, toolVars, debounceVars>>

InitCleanup ==
    /\ cleanupPc = "notStarted"
    /\ files = <<>>
    /\ fileIndex = 1
    /\ steps = <<>>

InitChild ==
    /\ childExited = FALSE
    /\ exitObserved = FALSE
    /\ timer = "none"
    /\ killed = FALSE

----------------------------------------------------------------------------
(* WorkspaceWatcher: Changed events and the debounce timers *)

DidChangeWatchedFiles == "workspace/didChangeWatchedFiles"

\* FileChangeType and WatchKind (part_005 128-141).
Created == 1
Changed == 2
Deleted == 3
FileChangeTypes == {Created, Changed, Deleted}
WatchCreate == 1
WatchChange == 2
WatchDelete == 4

\* The path the events are about: not excluded, watched, its kind includes Change.
WatchedPath == 1

\* The task in which the watcher's client.notifyChange runs.
WatcherTask == 1

\* `${filePath}:${changeType}` (line 294) and `change:${filePath}` (line 315).
fileEventKey(filePath, changeType) ==
    [family |-> "path:type", path |-> filePath, type |-> changeType]
changeKey(filePath) == [family |-> "change:", path |-> filePath, type |-> 0]
FileEventKey == fileEventKey(WatchedPath, Changed)
ChangeKey == changeKey(WatchedPath)
DebounceKeys ==
    {fileEventKey(u, ty) : u \in Uris, ty \in FileChangeTypes} \cup {changeKey(u) : u \in Uris}

\* Variant of clearExisting that leaves the earlier timer armed.
clearExisting_never(key) == armed

\* debounceFileEvent 297-300, debounceNotifyChange 318-321: clearTimeout of the
\* timer stored under the key, if any.
clearExisting(key) ==
    IF debounceTimers[key] # 0 THEN armed \ {[key |-> key, deadline |-> debounceTimers[key]]}
                               ELSE armed

\* debounceFileEvent 293-309 / debounceNotifyChange 314-332: the timer stored
\* under the key is cleared, a new one is set and stored.
debounce(key) ==
    /\ armed' = clearExisting(key) \cup {[key |-> key, deadline |-> now + DebounceTime]}
    /\ debounceTimers' = [debounceTimers EXCEPT ![key] = now + DebounceTime]

\* A timer callback has deleted its key and has yet to call client.notifyChange.
NoCallbackRunning == ~notifying

\* handleFileEvent(path, Changed), lines 248-283: an open file goes to
\* debounceNotifyChange, any other to debounceFileEvent. The events of the
\* burst arrive less than DebounceTime after one another.
handleFileEvent ==
    /\ NoCallbackRunning
    /\ eventsSeen < MaxEvents
    /\ eventsSeen = 0 \/ now - lastEvent < DebounceTime
    /\ LET key == IF isFileOpen(WatchedPath) THEN ChangeKey ELSE FileEventKey
       IN /\ debounce(key)
          /\ eventKeys' = eventKeys \cup {key}
    /\ eventsSeen' = eventsSeen + 1
    /\ lastEvent' = now
    /\ UNCHANGED <<now, notifying, filesVars, rpcVars, transportVars, baseVars, lateVars, toolVars,
                   cleanupVars, childVars>>

Due(tm) == tm \in armed /\ tm.deadline <= now

\* debounceFileEvent, lines 303-306, notifyFileEvent 333-353 and
\* didChangeWatchedFiles (client.ts 628-630): the timer fires, the key is
\* deleted and the notification is written.
debounceFileEvent_timeout ==
    /\ NoCallbackRunning
    /\ \E tm \in armed :
          /\ Due(tm) /\ tm.key = FileEventKey
          /\ armed' = armed \ {tm}
    /\ debounceTimers' = [debounceTimers EXCEPT ![FileEventKey] = 0]
    /\ call_write(DidChangeWatchedFiles, pathToUri([fsPath |-> WatchedPath]))
    /\ UNCHANGED <<now, lastEvent, eventsSeen, eventKeys, notifying, openFiles, fileInfo, task,
                   opsStarted, stdinOpen, rpcVars, transportVars, baseVars, lateVars, toolVars,
                   cleanupVars, childVars>>

\* debounceNotifyChange, lines 324-325: the timer fires and the key is
\* deleted; client.notifyChange is called next, in the same callback.
debounceNotifyChange_timeout ==
    /\ NoCallbackRunning
    /\ task[WatcherTask].pc = "idle"
    /\ \E tm \in armed :
          /\ Due(tm) /\ tm.key = ChangeKey
          /\ armed' = armed \ {tm}
    /\ debounceTimers' = [debounceTimers EXCEPT ![ChangeKey] = 0]
    /\ notifying' = TRUE
    /\ UNCHANGED <<now, lastEvent, eventsSeen, eventKeys, filesVars, rpcVars, transportVars,
                   baseVars, lateVars, toolVars, cleanupVars, childVars>>

\* debounceNotifyChange, lines 326-328: client.notifyChange(filePath) has been
\* called and runs on its own; a rejection is caught and logged.
debounceNotifyChange_called ==
    /\ notifying
    /\ task[WatcherTask].op = "notifyChange"
    /\ notifying' = FALSE
    /\ UNCHANGED <<now, lastEvent, eventsSeen, eventKeys, debounceTimers, armed, filesVars,
                   rpcVars, transportVars, baseVars, lateVars, toolVars, cleanupVars, childVars>>

\* Time passes; a timer fires when its delay has elapsed.
tick ==
    /\ NoCallbackRunning
    /\ now < MaxTime
    /\ \A tm \in armed : tm.deadline > now
    /\ now' = now + 1
    /\ UNCHANGED <<lastEvent, eventsSeen, eventKeys, debounceTimers, armed, notifying,
                   filesVars, rpcVars, transportVars, baseVars, lateVars, toolVars, cleanupVars,
                   childVars>>

InitDebounce ==
    /\ now = 0
    /\ lastEvent = 0
    /\ eventsSeen = 0
    /\ eventKeys = {}
    /\ debounceTimers = [k \in DebounceKeys |-> 0]
    /\ armed = {}
    /\ notifying = FALSE

----------------------------------------------------------------------------
(* WorkspaceWatcher: matchesPattern / matchGlob *)

\* Strings are sequences of characters.
AnyPattern == <<"*", "*", "/", "*">>
DeepPrefix == <<"*", "*", "/">>
StarDot == <<"*", ".">>
TsExt == <<".", "t", "s">>
GoExt == <<".", "g", "o">>

\* Workspace-relative paths, as path.relative(...).replace(/\\/g, '/') gives them.
RelativePaths ==
    { <<"a">> \o TsExt,
      <<"s", "/", "a">> \o TsExt,
      <<"s", "/", "f", "/", "a">> \o TsExt,
      TsExt,
      <<"t", "s">>,
      <<"a">> \o TsExt \o <<"x">>,
      <<"b">> \o GoExt,
      <<"s", "/", "b">> \o GoExt,
      <<"m">>,
      <<>> }

\* Patterns of the three supported shapes and of other shapes.
GlobPatterns ==
    { AnyPattern,
      DeepPrefix \o StarDot \o <<"t", "s">>,
      DeepPrefix \o StarDot \o <<"g", "o">>,
      StarDot \o <<"t", "s">>,
      StarDot \o <<"g", "o">>,
      <<"s", "/">> \o StarDot \o <<"t", "s">>,
      DeepPrefix \o <<"f", "/">> \o StarDot \o <<"t", "s">>,
      DeepPrefix \o <<"a">> \o TsExt,
      <<"a">> \o TsExt,
      <<"*">>,
      <<"*", "*">>,
      DeepPrefix,
      <<>> }

\* The values a registration's globPattern may hold: a string, a
\* RelativePattern object, an object without `pattern`, null, a number.
PatternValues ==
    [type : {"string"}, pattern : GlobPatterns]
        \cup [type : {"object"}, pattern : GlobPatterns]
        \cup {[type |-> "objectWithoutPattern", pattern |-> <<>>],
              [type |-> "null", pattern |-> <<>>],
              [type |-> "number", pattern |-> <<>>]}

\* s.substring(from)
substring(s, from) == SubSeq(s, from + 1, Len(s))

\* s.endsWith(suffix)
endsWith(s, suffix) ==
    Len(s) >= Len(suffix) /\ SubSeq(s, Len(s) - Len(suffix) + 1, Len(s)) = suffix

\* Variant of matchGlob that also serves a pattern with directories before `*.EXT`.
matchGlob_anyDirectory(normalizedPath, pattern) ==
    \E k \in 0..Len(pattern) :
        /\ startsWith(substring(pattern, k), StarDot)
        /\ endsWith(normalizedPath, substring(pattern, k + 1))

\* matchGlob, lines 394-419, on the workspace-relative path.
matchGlob(normalizedPath, pattern) ==
    IF pattern = AnyPattern THEN TRUE
    ELSE IF startsWith(pattern, DeepPrefix) /\ startsWith(substring(pattern, 3), StarDot)
      THEN endsWith(normalizedPath, substring(substring(pattern, 3), 1))
    ELSE IF startsWith(pattern, StarDot)
      THEN endsWith(normalizedPath, substring(pattern, 1))
    ELSE FALSE

\* matchesPattern, lines 377-389.
matchesPattern(normalizedPath, value) ==
    IF value.type = "string" THEN matchGlob(normalizedPath, value.pattern)
    ELSE IF value.type = "object" THEN matchGlob(normalizedPath, value.pattern)
    ELSE FALSE

NoCall == [made |-> FALSE]

matchesPattern_call(normalizedPath, value) ==
        /\ globCall' = [made |-> TRUE, path |-> normalizedPath, pattern |-> value,
                    result |-> matchesPattern(normalizedPath, value)]
    /\ UNCHANGED <<editCall, definitionCall, symbolCall, toolCallVars, cacheVars, filesVars,
                   rpcVars, transportVars, baseVars, toolVars, cleanupVars, childVars,
                   debounceVars, watcherVars>>

----------------------------------------------------------------------------
(* applyWorkspaceEdit (rename.ts 82-125, edit.ts 142-185) on one file *)

\* The file the edits are applied to: `ab`, newline, `cd`.
FileContent == <<"a", "b", "\n", "c", "d">>

\* EditPositions of the file, Range objects over them, and TextEdits.
EditPositions == [line : 0..1, character : 0..2]
NewTexts == {<<>>, <<"X">>, <<"Y">>}
notAfter(p, q) == p.line < q.line \/ (p.line = q.line /\ p.character <= q.character)
TextEdits ==
    {e \in [range : [start : EditPositions, end : EditPositions], newText : NewTexts] :
        notAfter(e.range.start, e.range.end)}

\* content.split('\n')
RECURSIVE splitLines(_)
splitLines(content) ==
    IF \E i \in 1..Len(content) : content[i] = "\n"
      THEN LET i == CHOOSE k \in 1..Len(content) :
                       content[k] = "\n" /\ \A j \in 1..(k - 1) : content[j] # "\n"
           IN <<SubSeq(content, 1, i - 1)>> \o splitLines(SubSeq(content, i + 1, Len(content)))
      ELSE <<content>>

\* lines.join('\n')
RECURSIVE joinLines(_)
joinLines(lines) ==
    IF Len(lines) = 0 THEN <<>>
    ELSE IF Len(lines) = 1 THEN lines[1]
    ELSE lines[1] \o <<"\n">> \o joinLines(Tail(lines))

\* The comparator of lines 94-99: negative when a is to come first.
compareEdits(a, b) ==
    IF b.range.start.line # a.range.start.line
      THEN b.range.start.line - a.range.start.line
      ELSE b.range.start.character - a.range.start.character

\* Array.prototype.sort with that comparator: stable, so edits that compare
\* equal keep their order.
RECURSIVE insertSorted(_, _)
insertSorted(sorted, e) ==
    IF sorted = <<>> THEN <<e>>
    ELSE IF compareEdits(Head(sorted), e) > 0 THEN <<e>> \o sorted
    ELSE <<Head(sorted)>> \o insertSorted(Tail(sorted), e)

RECURSIVE sortEdits(_)
sortEdits(edits) ==
    IF edits = <<>> THEN <<>>
    ELSE insertSorted(sortEdits(SubSeq(edits, 1, Len(edits) - 1)), edits[Len(edits)])

\* line.substring(from, to) and line.substring(from), indices clamped.
substringTo(line, from, to) ==
    LET lo == IF from > Len(line) THEN Len(line) ELSE from
        hi == IF to > Len(line) THEN Len(line) ELSE to
    IN IF lo <= hi THEN SubSeq(line, lo + 1, hi) ELSE SubSeq(line, hi + 1, lo)

\* Lines 102-120: one edit applied to the lines.
applyEdit(lines, edit) ==
    LET startLine == edit.range.start.line
        startChar == edit.range.start.character
        endLine == edit.range.end.line
        endChar == edit.range.end.character
    IN IF startLine = endLine
         THEN [lines EXCEPT ![startLine + 1] =
                  substringTo(lines[startLine + 1], 0, startChar) \o edit.newText
                      \o substringTo(lines[startLine + 1], endChar, Len(lines[startLine + 1]))]
         ELSE SubSeq(lines, 1, startLine)
                \o <<substringTo(lines[startLine + 1], 0, startChar) \o edit.newText
                       \o substringTo(lines[endLine + 1], endChar, Len(lines[endLine + 1]))>>
                \o SubSeq(lines, endLine + 2, Len(lines))

\* lines[startLine] or lines[endLine] is undefined: `.substring` throws.
throws(lines, edit) ==
    edit.range.start.line >= Len(lines) \/ edit.range.end.line >= Len(lines)

\* Lines 101-121: the loop over the sorted edits, up to the first TypeError.
RECURSIVE applyEdits(_, _)
applyEdits(lines, sortedEdits) ==
    IF sortedEdits = <<>> THEN [threw |-> FALSE, lines |-> lines]
    ELSE IF throws(lines, Head(sortedEdits)) THEN [threw |-> TRUE, lines |-> lines]
    ELSE applyEdits(applyEdit(lines, Head(sortedEdits)), Tail(sortedEdits))

\* applyWorkspaceEdit, lines 88-123, for one uri: the text written to the
\* file; nothing is written when an edit threw.
applyWorkspaceEdit(content, edits) ==
    LET applied == applyEdits(splitLines(content), sortEdits(edits))
    IN [threw |-> applied.threw,
        text |-> IF applied.threw THEN content ELSE joinLines(applied.lines)]


\* The edit lists of length MaxEdits.
EditLists == [1..MaxEdits -> TextEdits]

applyWorkspaceEdit_call(content, edits) ==
    /\ ~editCall.made
    /\ editCall' = [made |-> TRUE, content |-> content, edits |-> edits,
                    written |-> applyWorkspaceEdit(content, edits)]
    /\ UNCHANGED <<globCall, definitionCall, symbolCall, toolCallVars, cacheVars, filesVars,
                   rpcVars, transportVars, baseVars, toolVars, cleanupVars, childVars,
                   debounceVars, watcherVars>>

----------------------------------------------------------------------------
(* getFullDefinition (utilities.ts 119-187) *)

\* Lines a source file is made of.
DocLine == <<"/", "/", " ", "d", "o", "c">>
FunctionLine == <<"f", "u", "n", "c", "t", "i", "o", "n", " ", "f", "(", ")", " ", "{">>
ReturnLine == <<" ", " ", "r", "e", "t", "u", "r", "n", " ", "1", ";">>
CloseLine == <<"}">>
StringLine == <<"s", " ", "=", " ", "'", "{", "'", ";">>
DecoratorLine == <<" ", "@", "d">>
SourceLines == {DocLine, FunctionLine, ReturnLine, CloseLine, StringLine, DecoratorLine, <<>>}

\* The files: up to MaxLines lines (content.split('\n') of the file read).
SourceFiles == UNION {[1..n -> SourceLines] : n \in 1..MaxLines}

\* The ranges a server reports for a file: whole lines of the file.
ReportedRanges(lines) ==
    {[start |-> [line |-> s, character |-> 0], end |-> [line |-> e, character |-> 12]] :
        s \in 0..(Len(lines) - 1), e \in 0..(Len(lines) - 1)}

\* line.trim(), for lines whose white space is the blank
RECURSIVE trim(_)
trim(line) ==
    IF line # <<>> /\ Head(line) = " " THEN trim(Tail(line))
    ELSE IF line # <<>> /\ line[Len(line)] = " " THEN trim(SubSeq(line, 1, Len(line) - 1))
    ELSE line

\* Lines 131-132: the previous line is a comment or a decorator.
isCommentOrDecorator(prevLine) ==
    \/ startsWith(prevLine, <<"/", "/">>) \/ startsWith(prevLine, <<"/", "*">>)
    \/ startsWith(prevLine, <<"*">>) \/ startsWith(prevLine, <<"#">>)
    \/ startsWith(prevLine, <<"@">>)

\* Lines 129-137: the start line moved up over comments and decorators.
RECURSIVE expandUpward(_, _)
expandUpward(lines, startLine) ==
    IF startLine > 0 /\ isCommentOrDecorator(trim(lines[startLine]))
      THEN expandUpward(lines, startLine - 1)
      ELSE startLine

NoScan == [braceCount |-> 0, inString |-> FALSE, stringChar |-> ""]

\* Lines 146-163: the characters of one line, from position j (1-based) on.
RECURSIVE scanLine(_, _, _)
scanLine(scan, line, j) ==
    IF j > Len(line) THEN scan
    ELSE LET char == line[j]
             quote == /\ char \in {"\"", "'"}
                      /\ (j = 1 \/ line[j - 1] # "\\")
             afterQuote ==
                 IF quote /\ ~scan.inString
                   THEN [scan EXCEPT !.inString = TRUE, !.stringChar = char]
                 ELSE IF quote /\ char = scan.stringChar
                   THEN [scan EXCEPT !.inString = FALSE]
                 ELSE scan
             afterBrace ==
                 IF afterQuote.inString THEN afterQuote
                 ELSE IF char = "{" THEN [afterQuote EXCEPT !.braceCount = @ + 1]
                 ELSE IF char = "}" THEN [afterQuote EXCEPT !.braceCount = @ - 1]
                 ELSE afterQuote
         IN scanLine(afterBrace, line, j + 1)

\* Variant of lastLineScanned that scans to the end of the file.
lastLineScanned_endOfFile(lines, endLine) == Len(lines) - 1

\* Line 144: `i <= endLine && i < lines.length`, endLine being the reported
\* end line: the last index the loop reaches.
lastLineScanned(lines, endLine) ==
    IF endLine < Len(lines) - 1 THEN endLine ELSE Len(lines) - 1

\* Lines 144-171: the loop from line i (0-based) on; the end line it leaves.
RECURSIVE expandDownward(_, _, _, _, _)
expandDownward(lines, scan, i, reportedStart, endLine) ==
    IF i > lastLineScanned(lines, endLine) THEN endLine
    ELSE LET after == scanLine(scan, lines[i + 1], 1)
         IN IF after.braceCount = 0 /\ i > reportedStart THEN i
            ELSE expandDownward(lines, after, i + 1, reportedStart, endLine)

\* getFullDefinition, lines 119-187: the text and the range returned.
getFullDefinition(lines, range) ==
    LET startLine == expandUpward(lines, range.start.line)
        endLine == expandDownward(lines, NoScan, startLine, range.start.line, range.end.line)
    IN [text |-> SubSeq(lines, startLine + 1, endLine + 1),
        range |-> [start |-> [line |-> startLine, character |-> 0],
                   end |-> [line |-> endLine, character |-> Len(lines[endLine + 1])]]]

getFullDefinition_call(lines, range) ==
    /\ ~definitionCall.made
    /\ definitionCall' = [made |-> TRUE, lines |-> lines, range |-> range,
                          result |-> getFullDefinition(lines, range)]
    /\ UNCHANGED <<globCall, editCall, symbolCall, toolCallVars, cacheVars, filesVars,
                   rpcVars, transportVars, baseVars, toolVars, cleanupVars, childVars,
                   debounceVars, watcherVars>>

----------------------------------------------------------------------------
(* readDefinition (rename.ts 144-222): which workspace symbols are read *)

\* SymbolKind.Method and SymbolKind.Function of the protocol.
Method == 6
Function == 12

\* Queries and the names of the symbols the server returns for them.
SymbolQueries == {<<"f">>, <<"T", ".", "f">>}
SymbolNames ==
    {<<"f">>, <<"T", ".", "f">>, <<"T", ":", ":", "f">>, <<"g", "f">>, <<"f", ".", "g">>,
     <<"U", ".", "T", ".", "f">>}
Symbols == [name : SymbolNames, kind : {Method, Function}, opens : BOOLEAN]
SymbolResults == UNION {[1..n -> Symbols] : n \in 0..MaxSymbols}

\* symbolName.includes('.')
includes(s, char) == \E i \in 1..Len(s) : s[i] = char

\* Variant of accepts that matches symbols of every kind by suffix.
accepts_suffixAnyKind(symbolName, sym) ==
    \/ endsWith(sym.name, <<":", ":">> \o symbolName)
    \/ endsWith(sym.name, <<".">> \o symbolName)
    \/ sym.name = symbolName

\* Lines 163-184: the symbol is not skipped by the matching strategy.
accepts(symbolName, sym) ==
    IF includes(symbolName, ".") THEN sym.name = symbolName
    ELSE IF sym.kind = Method
      THEN \/ endsWith(sym.name, <<":", ":">> \o symbolName)
           \/ endsWith(sym.name, <<".">> \o symbolName)
           \/ sym.name = symbolName
    ELSE sym.name = symbolName

\* Lines 155-214: the loop over the results; a definition is pushed for every
\* accepted symbol whose file could be opened (`opens`), headed by its name.
RECURSIVE definitionsOf(_, _)
definitionsOf(symbolName, results) ==
    IF results = <<>> THEN <<>>
    ELSE (IF accepts(symbolName, Head(results)) /\ Head(results).opens
            THEN <<<<"-", "-", "-">> \o Head(results).name>>
            ELSE <<>>)
         \o definitionsOf(symbolName, Tail(results))

\* definitions.join('')
RECURSIVE joinAll(_)
joinAll(definitions) ==
    IF definitions = <<>> THEN <<>> ELSE Head(definitions) \o joinAll(Tail(definitions))

NotFound == <<" ", "n", "o", "t", " ", "f", "o", "u", "n", "d">>

\* readDefinition, lines 144-222: the text returned.
readDefinition(symbolName, results) ==
    IF Len(definitionsOf(symbolName, results)) = 0 THEN symbolName \o NotFound
    ELSE joinAll(definitionsOf(symbolName, results))

readDefinition_call(symbolName, results) ==
    /\ ~symbolCall.made
    /\ symbolCall' = [made |-> TRUE, query |-> symbolName, results |-> results,
                      accepted |-> {i \in 1..Len(results) : accepts(symbolName, results[i])},
                      output |-> readDefinition(symbolName, results)]
    /\ UNCHANGED <<globCall, editCall, definitionCall, toolCallVars, cacheVars, filesVars,
                   rpcVars, transportVars, baseVars, toolVars, cleanupVars, childVars,
                   debounceVars, watcherVars>>

----------------------------------------------------------------------------
(* getLineRangesToDisplay and convertLinesToRanges (utilities.ts 24-90) *)

\* The line indices of the references and of the sets of lines.
LineIndices == 0..MaxLineIndex

\* The line spans of Location objects, and the lists of locations of one file.
Spans == {sp \in [start : LineIndices, end : LineIndices] : sp.start <= sp.end}
LocationLists ==
    {<<>>} \cup {<<sp>> : sp \in Spans} \cup {<<sp1, sp2>> : sp1 \in Spans, sp2 \in Spans}

\* References at the lines 3, 4 and 12 of a file of 20 lines, two lines of context.
ExampleLocations ==
    <<[start |-> 3, end |-> 3], [start |-> 4, end |-> 4], [start |-> 12, end |-> 12]>>
ExampleDisplay == [locations |-> ExampleLocations, totalLines |-> 20, contextLines |-> 2]

\* The calls of getLineRangesToDisplay.
DisplayInputs ==
    [locations : LocationLists, totalLines : 0..MaxTotalLines, contextLines : 0..MaxContextLines]
        \cup {ExampleDisplay}

max(a, b) == IF a > b THEN a ELSE b
min(a, b) == IF a < b THEN a ELSE b

\* Lines 36-48: the three loops for one location.
linesOf(loc, totalLines, contextLines) ==
    {i \in max(0, loc.start - contextLines)..loc.start : TRUE}
        \cup {i \in loc.start..loc.end : TRUE}
        \cup {i \in loc.end..(min(totalLines, loc.end + contextLines + 1) - 1) : TRUE}

\* getLineRangesToDisplay, lines 24-52.
getLineRangesToDisplay(locations, totalLines, contextLines) ==
    UNION {linesOf(locations[k], totalLines, contextLines) : k \in 1..Len(locations)}

getLineRangesToDisplay_call(input) ==
    /\ ~displayCall.made
    /\ displayCall' = [made |-> TRUE, input |-> input,
                       result |-> getLineRangesToDisplay(input.locations, input.totalLines,
                                                         input.contextLines)]
    /\ UNCHANGED <<rangesCall, locationCall, textEditsCall, earlyCallVars, cacheVars, filesVars,
                   rpcVars, transportVars, baseVars, toolVars, cleanupVars, childVars,
                   debounceVars, watcherVars>>

\* Array.from(lines).sort((a, b) => a - b)
RECURSIVE sortedLines(_)
sortedLines(lines) ==
    IF lines = {} THEN <<>>
    ELSE LET least == CHOOSE a \in lines : \A b \in lines : a <= b
         IN <<least>> \o sortedLines(lines \ {least})

\* Variant of continues that also joins lines one line apart.
continues_acrossGap(line, rangeEnd) == line <= rangeEnd + 2

\* Line 76: the line continues the current range.
continues(line, rangeEnd) == line = rangeEnd + 1

\* Lines 72-83: the loop, from the state [ranges, rangeStart, rangeEnd] on.
RECURSIVE collectRanges(_, _)
collectRanges(sorted, st) ==
    IF sorted = <<>> THEN st
    ELSE LET line == Head(sorted)
         IN collectRanges(Tail(sorted),
                IF st.rangeStart = -1
                  THEN [st EXCEPT !.rangeStart = line, !.rangeEnd = line]
                ELSE IF continues(line, st.rangeEnd)
                  THEN [st EXCEPT !.rangeEnd = line]
                ELSE [ranges |-> Append(st.ranges, [start |-> st.rangeStart, end |-> st.rangeEnd]),
                      rangeStart |-> line, rangeEnd |-> line])

\* convertLinesToRanges, lines 65-90.
convertLinesToRanges(lines) ==
    LET st == collectRanges(sortedLines(lines),
                            [ranges |-> <<>>, rangeStart |-> -1, rangeEnd |-> -1])
    IN IF st.rangeStart # -1
         THEN Append(st.ranges, [start |-> st.rangeStart, end |-> st.rangeEnd])
         ELSE st.ranges

convertLinesToRanges_call(lines) ==
    /\ ~rangesCall.made
    /\ rangesCall' = [made |-> TRUE, lines |-> lines, result |-> convertLinesToRanges(lines)]
    /\ UNCHANGED <<displayCall, locationCall, textEditsCall, earlyCallVars, cacheVars, filesVars,
                   rpcVars, transportVars, baseVars, toolVars, cleanupVars, childVars,
                   debounceVars, watcherVars>>

----------------------------------------------------------------------------
(* wrapSymbol and the getLocation of the two wrappers (part_005 26-91) *)

\* `'f' in object`: the object carries the property.
carries(object, property) == property \in DOMAIN object

ZeroRange ==
    [start |-> [line |-> 0, character |-> 0], end |-> [line |-> 0, character |-> 0]]

\* The values of `location` in a workspace/symbol result: a Location, or only a uri.
SymbolPositions == [line : 0..MaxPosition, character : 0..MaxPosition]
SymbolRanges == [start : SymbolPositions, end : SymbolPositions]
SymbolLocations == [uri : Uris] \cup [uri : Uris, range : SymbolRanges]

\* The workspace/symbol results, with and without a `location`.
WorkspaceSymbols ==
    [name : {"f", "g"}, kind : {Method, Function}, location : SymbolLocations]
        \cup [name : {"f", "g"}, kind : {Method, Function}]

\* wrapSymbol, lines 83-91: the class of the wrapper chosen.
wrapSymbol(symbol) ==
    IF carries(symbol, "location") /\ carries(symbol.location, "uri")
      THEN [class |-> "SymbolInformationWrapper", symbol |-> symbol]
      ELSE [class |-> "WorkspaceSymbolWrapper", symbol |-> symbol]

\* getLocation of SymbolInformationWrapper (35-37) and of WorkspaceSymbolWrapper
\* (58-75); `'range' in undefined` is a TypeError.
getLocation(wrapper) ==
    IF wrapper.class = "SymbolInformationWrapper"
      THEN [threw |-> FALSE, location |-> wrapper.symbol.location]
    ELSE IF ~carries(wrapper.symbol, "location")
      THEN [threw |-> TRUE]
    ELSE IF carries(wrapper.symbol.location, "range")
      THEN [threw |-> FALSE, location |-> wrapper.symbol.location]
    ELSE [threw |-> FALSE,
          location |-> [uri |-> wrapper.symbol.location.uri, range |-> ZeroRange]]

getLocation_call(symbol) ==
    /\ ~locationCall.made
    /\ locationCall' = [made |-> TRUE, symbol |-> symbol,
                        result |-> getLocation(wrapSymbol(symbol))]
    /\ UNCHANGED <<displayCall, rangesCall, textEditsCall, earlyCallVars, cacheVars, filesVars,
                   rpcVars, transportVars, baseVars, toolVars, cleanupVars, childVars,
                   debounceVars, watcherVars>>

----------------------------------------------------------------------------
(* applyTextEdits and getRange (edit.ts 22-137) on one file *)

\* The files edited: two lines, one line with a final newline, the empty file
\* (none holds a carriage return, so the line ending detected is `\n`).
TextContents == {FileContent, <<"a", "\n">>, <<>>}

\* The edits of the tool input: 1-based line numbers, also below 1 and past
\* the end of the file.
LineNumbers == (0 - 1)..MaxLineNumber
LineEdits ==
    {e \in [startLine : LineNumbers, endLine : LineNumbers, newText : {<<>>, <<"X">>}] :
        e.startLine <= e.endLine}
LineEditLists == UNION {[1..n -> LineEdits] : n \in 0..MaxEdits}

\* getRange, lines 84-137: the Range of the lines startLine..endLine, or the
\* error of line 93.
getRange(content, startLine, endLine) ==
    LET lines == splitLines(content)
        startIdx == startLine - 1
        endIdx == IF endLine - 1 >= Len(lines) THEN Len(lines) - 1 ELSE endLine - 1
        lastLine == Len(lines) - 1
        lastContent == IF lastLine >= 0 /\ lines[lastLine + 1] = <<>>
                         THEN lastLine - 1 ELSE lastLine
        lastContentLineIdx == IF lastContent < 0 THEN 0 ELSE lastContent
        pos == [line |-> lastContentLineIdx, character |-> Len(lines[lastContentLineIdx + 1])]
    IN IF startLine < 1 THEN [threw |-> TRUE]
       ELSE IF startIdx >= Len(lines)
         THEN [threw |-> FALSE, range |-> [start |-> pos, end |-> pos]]
       ELSE [threw |-> FALSE,
             range |-> [start |-> [line |-> startIdx, character |-> 0],
                        end |-> [line |-> endIdx, character |-> Len(lines[endIdx + 1])]]]

\* [...edits].sort((a, b) => b.startLine - a.startLine), a stable sort.
RECURSIVE insertDescending(_, _)
insertDescending(sorted, e) ==
    IF sorted = <<>> THEN <<e>>
    ELSE IF e.startLine - Head(sorted).startLine > 0 THEN <<e>> \o sorted
    ELSE <<Head(sorted)>> \o insertDescending(Tail(sorted), e)

RECURSIVE descendingEdits(_)
descendingEdits(edits) ==
    IF edits = <<>> THEN <<>>
    ELSE insertDescending(descendingEdits(SubSeq(edits, 1, Len(edits) - 1)), edits[Len(edits)])

\* Lines 61-67: the loop that converts the edits, up to the first error.
RECURSIVE lspEdits(_, _)
lspEdits(content, edits) ==
    IF edits = <<>> THEN [threw |-> FALSE, edits |-> <<>>]
    ELSE LET got == getRange(content, Head(edits).startLine, Head(edits).endLine)
             rest == lspEdits(content, Tail(edits))
         IN IF got.threw \/ rest.threw THEN [threw |-> TRUE]
            ELSE [threw |-> FALSE,
                  edits |-> <<[range |-> got.range, newText |-> Head(edits).newText]>>
                                \o rest.edits]

\* Lines 39-53: the counts of the message returned.
RECURSIVE linesRemoved(_)
linesRemoved(edits) ==
    IF edits = <<>> THEN 0
    ELSE (Head(edits).endLine - Head(edits).startLine + 1) + linesRemoved(Tail(edits))

RECURSIVE linesAdded(_)
linesAdded(edits) ==
    IF edits = <<>> THEN 0
    ELSE (IF Head(edits).newText # <<>> THEN Len(splitLines(Head(edits).newText)) ELSE 0)
            + linesAdded(Tail(edits))

\* Variant of applyTextEdits that writes each edit as soon as its range is
\* computed.
RECURSIVE applyTextEdits_editByEdit(_, _, _)
applyTextEdits_editByEdit(content, edits, opens) ==
    LET sorted == descendingEdits(edits)
        got == getRange(content, sorted[1].startLine, sorted[1].endLine)
        written == applyWorkspaceEdit(content,
                       <<[range |-> got.range, newText |-> sorted[1].newText]>>)
        rest == applyTextEdits_editByEdit(written.text, Tail(sorted), opens)
    IN IF ~opens THEN [threw |-> TRUE, text |-> content]
       ELSE IF edits = <<>>
         THEN [threw |-> FALSE, text |-> content, removed |-> 0, added |-> 0]
       ELSE IF got.threw THEN [threw |-> TRUE, text |-> content]
       ELSE IF written.threw \/ rest.threw THEN [threw |-> TRUE, text |-> rest.text]
       ELSE [threw |-> FALSE, text |-> rest.text,
             removed |-> linesRemoved(edits), added |-> linesAdded(edits)]

\* applyTextEdits, lines 22-79: whether it threw, the text of the file
\* afterwards and the counts reported; `opens` is the outcome of openFile.
applyTextEdits(content, edits, opens) ==
    LET converted == lspEdits(content, descendingEdits(edits))
        written == applyWorkspaceEdit(content, converted.edits)
    IN IF ~opens \/ converted.threw THEN [threw |-> TRUE, text |-> content]
       ELSE IF written.threw THEN [threw |-> TRUE, text |-> written.text]
       ELSE [threw |-> FALSE, text |-> written.text,
             removed |-> linesRemoved(edits), added |-> linesAdded(edits)]

applyTextEdits_call(content, edits, opens) ==
    /\ ~textEditsCall.made
    /\ textEditsCall' = [made |-> TRUE, content |-> content, edits |-> edits, opens |-> opens,
                         result |-> applyTextEdits(content, edits, opens)]
    /\ UNCHANGED <<displayCall, rangesCall, locationCall, earlyCallVars, cacheVars, filesVars,
                   rpcVars, transportVars, baseVars, toolVars, cleanupVars, childVars,
                   debounceVars, watcherVars>>

----------------------------------------------------------------------------
(* LSPCacheManager: the workspace-symbol cache (client.ts 902-1008, 1213-1226) *)

\* The query strings of workspace/symbol, the empty query among them, and the
\* symbol lists cached for them.
QueryNames == {<<>>, <<"a">>, <<"A">>, <<"b">>, <<"c">>}
CachedSymbols == {<<>>, <<"f">>}

\* config.enabled of the manager the client constructs (line 916).
enabled == TRUE

\* symbolCacheKey, lines 934-936: symbolName.toLowerCase()
toLowerCase(s) ==
    [i \in 1..Len(s) |-> IF s[i] = "A" THEN "a" ELSE IF s[i] = "B" THEN "b"
                          ELSE IF s[i] = "C" THEN "c" ELSE s[i]]
symbolCacheKey(symbolName) == toLowerCase(symbolName)

\* Map.prototype.has and the position of a key in the insertion order.
cached(key) == \E i \in 1..Len(workspaceSymbolsCache) : workspaceSymbolsCache[i].key = key
positionOf(map, key) == CHOOSE i \in 1..Len(map) : map[i].key = key

\* Map.prototype.delete and Map.prototype.set: a key that is present keeps
\* its place in the insertion order.
mapDelete(map, key) == SelectSeq(map, LAMBDA e : e.key # key)
mapSet(map, key, data) ==
    IF \E i \in 1..Len(map) : map[i].key = key
      THEN [map EXCEPT ![positionOf(map, key)] = [key |-> key, data |-> data]]
      ELSE Append(map, [key |-> key, data |-> data])

\* Lines 993-1000: the oldest entry is removed when the cache is full and
\* `firstKey` is truthy (the empty string is not).
evictOldest(map) ==
    IF Len(map) >= MaxSymbolCacheSize
      THEN LET firstKey == map[1].key
           IN IF firstKey # <<>> THEN mapDelete(map, firstKey) ELSE map
      ELSE map

\* setWorkspaceSymbols, lines 985-1008.
setWorkspaceSymbols(symbolName, symbols) ==
    /\ cacheCalls < MaxCacheCalls
    /\ cacheCalls' = cacheCalls + 1
    /\ workspaceSymbolsCache' =
          IF ~enabled THEN workspaceSymbolsCache
          ELSE mapSet(evictOldest(workspaceSymbolsCache), symbolCacheKey(symbolName), symbols)
    /\ UNCHANGED <<earlyCallVars, toolCallVars, filesVars, rpcVars, transportVars, baseVars,
                   toolVars, cleanupVars, childVars, debounceVars, watcherVars>>

\* getWorkspaceSymbols, lines 959-980; `expired` is the outcome of isExpired
\* (946-954) for the entry found, which is then deleted.
getWorkspaceSymbols(symbolName, expired) ==
    /\ enabled
    /\ cached(symbolCacheKey(symbolName))
    /\ expired
    /\ workspaceSymbolsCache' = mapDelete(workspaceSymbolsCache, symbolCacheKey(symbolName))
    /\ UNCHANGED <<cacheCalls, earlyCallVars, toolCallVars, filesVars, rpcVars, transportVars,
                   baseVars, toolVars, cleanupVars, childVars, debounceVars, watcherVars>>

\* invalidateWorkspaceSymbols and clearAll, lines 1213-1226.
invalidateWorkspaceSymbols ==
    /\ workspaceSymbolsCache # <<>>
    /\ workspaceSymbolsCache' = <<>>
    /\ UNCHANGED <<cacheCalls, earlyCallVars, toolCallVars, filesVars, rpcVars, transportVars,
                   baseVars, toolVars, cleanupVars, childVars, debounceVars, watcherVars>>

InitToolCalls ==
    /\ displayCall = NoCall
    /\ rangesCall = NoCall
    /\ locationCall = NoCall
    /\ textEditsCall = NoCall

InitCache ==
    /\ workspaceSymbolsCache = <<>>
    /\ cacheCalls = 0

InitFunctions ==
    /\ globCall = NoCall
    /\ editCall = NoCall
    /\ definitionCall = NoCall
    /\ symbolCall = NoCall
    /\ InitToolCalls
    /\ InitCache



----------------------------------------------------------------------------
(* WorkspaceWatcher: registrations, file events of every type, stop *)

\* path.relative(this.workspacePath, filePath) of the files of the workspace.
relativePath(filePath) ==
    IF filePath = 1 THEN <<"s", "/", "a">> \o TsExt
    ELSE IF filePath = 2 THEN <<"b">> \o GoExt
    ELSE <<"m">>

\* A watcher without `kind`.
NoKind == -1
AllKinds == 7

\* The globPattern of a FileSystemWatcher: a string, or a RelativePattern object.
TsFiles == [type |-> "string", pattern |-> DeepPrefix \o StarDot \o <<"t", "s">>]
AnyFile == [type |-> "object", pattern |-> AnyPattern]

\* The watcher lists addRegistrations is called with.
WatcherSets ==
    {<<>>,
     <<[globPattern |-> TsFiles, kind |-> NoKind]>>,
     <<[globPattern |-> AnyFile, kind |-> WatchChange + WatchDelete]>>,
     <<[globPattern |-> TsFiles, kind |-> WatchCreate], [globPattern |-> AnyFile, kind |-> NoKind]>>}



\* kind & flag, for a flag that is a power of two.
bitAnd(kind, flag) == IF (kind \div flag) % 2 = 1 THEN flag ELSE 0

\* isPathWatched, lines 357-372: the kind of the first registration whose
\* pattern matches; everything when there is no registration at all.
RECURSIVE firstMatch(_, _)
firstMatch(filePath, regs) ==
    IF regs = <<>> THEN [watched |-> FALSE, kind |-> 0]
    ELSE IF matchesPattern(relativePath(filePath), Head(regs).globPattern)
      THEN [watched |-> TRUE,
            kind |-> IF Head(regs).kind = NoKind THEN AllKinds ELSE Head(regs).kind]
    ELSE firstMatch(filePath, Tail(regs))

isPathWatched(filePath) ==
    IF registrations = <<>> THEN [watched |-> TRUE, kind |-> AllKinds]
    ELSE firstMatch(filePath, registrations)

\* handleFileEvent, lines 262-271: the flag of WatchKind for the event type.
kindFlag(changeType) ==
    IF changeType = Created THEN WatchCreate
    ELSE IF changeType = Changed THEN WatchChange
    ELSE WatchDelete

\* handleFileEvent, lines 253-271: the event passes the exclusion rules
\* (`excluded` is what shouldExcludeFile returns for the file as it is on
\* disk), is watched, and its type is in the kind.
passesFilters(filePath, changeType, excluded) ==
    /\ ~excluded
    /\ isPathWatched(filePath).watched
    /\ bitAnd(isPathWatched(filePath).kind, kindFlag(changeType)) # 0

\* Variant of routesToNotifyChange that looks at the registry only.
routesToNotifyChange_anyType(filePath, changeType) == isFileOpen(filePath)

\* handleFileEvent, line 282.
routesToNotifyChange(filePath, changeType) == changeType = Changed /\ isFileOpen(filePath)

\* Variant of handlesEvents for a watcher that is never closed.
handlesEvents_always == TRUE

\* chokidar emits events until close() has settled.
handlesEvents == watcherState # "stopped"

\* handleFileEvent, lines 252-288, the whole handler: exclusion, kind mask,
\* for Created the synchronous part of client.openFile (client.ts 229-239) run
\* by task t, and the choice of the debounce.
handleFileEvent_of(filePath, changeType, excluded, t) ==
    /\ handlesEvents
    /\ NoCallbackRunning
    /\ eventsSeen < MaxFileEvents
    /\ eventsSeen' = eventsSeen + 1
    /\ LET isDelivered == passesFilters(filePath, changeType, excluded)
           key == IF routesToNotifyChange(filePath, changeType) THEN changeKey(filePath)
                  ELSE fileEventKey(filePath, changeType)
       IN /\ lastFileEvent' = [path |-> filePath, type |-> changeType,
                                excluded |-> excluded, delivered |-> isDelivered, key |-> key]
          /\ IF isDelivered
               THEN debounce(key)
               ELSE UNCHANGED <<armed, debounceTimers>>
          /\ IF isDelivered /\ changeType = Created
               THEN /\ t # WatcherTask /\ CanStart(t)
                    /\ opsStarted' = opsStarted + 1
                    /\ task' = [task EXCEPT ![t] =
                          IF has(pathToUri([fsPath |-> filePath]))
                            THEN [IdleTask EXCEPT !.op = "openFile", !.uri = filePath, !.res = "ok"]
                            ELSE [op |-> "openFile", pc |-> "read", uri |-> filePath,
                                  ref |-> 0, res |-> "none"]]
               ELSE UNCHANGED <<opsStarted, task>>
    /\ UNCHANGED <<now, lastEvent, eventKeys, notifying, openFiles, fileInfo, stdinOpen, sent,
                   rpcVars, transportVars, baseVars, toolVars, cleanupVars, childVars,
                   functionVars, watcherState, notifyingPath, walks>>

\* notifyFileEvent, lines 337-353: didChangeWatchedFiles with one change.
notifyFileEvent(filePath, changeType) ==
    sent' = streamWrite(sent, [method |-> DidChangeWatchedFiles,
                               uri |-> pathToUri([fsPath |-> filePath]),
                               version |-> 0, registry |-> 0,
                               changes |-> <<[uri |-> pathToUri([fsPath |-> filePath]),
                                              type |-> changeType]>>])

\* debounceFileEvent, lines 303-306: the timer of (path, type) fires.
debounceFileEvent_fired(filePath, changeType) ==
    /\ NoCallbackRunning
    /\ \E tm \in armed :
          /\ Due(tm) /\ tm.key = fileEventKey(filePath, changeType)
          /\ armed' = armed \ {tm}
    /\ debounceTimers' = [debounceTimers EXCEPT ![fileEventKey(filePath, changeType)] = 0]
    /\ notifyFileEvent(filePath, changeType)
    /\ UNCHANGED <<now, lastEvent, eventsSeen, eventKeys, notifying, openFiles, fileInfo, task,
                   opsStarted, stdinOpen, rpcVars, transportVars, baseVars, toolVars,
                   cleanupVars, childVars, lateVars>>

\* debounceNotifyChange, lines 323-328: the timer of change:path fires;
\* client.notifyChange(filePath) is called next, in the same callback.
debounceNotifyChange_fired(filePath) ==
    /\ NoCallbackRunning
    /\ task[WatcherTask].pc = "idle"
    /\ \E tm \in armed :
          /\ Due(tm) /\ tm.key = changeKey(filePath)
          /\ armed' = armed \ {tm}
    /\ debounceTimers' = [debounceTimers EXCEPT ![changeKey(filePath)] = 0]
    /\ notifying' = TRUE
    /\ notifyingPath' = filePath
    /\ task' = [task EXCEPT ![WatcherTask] = IdleTask]
    /\ UNCHANGED <<now, lastEvent, eventsSeen, eventKeys, openFiles, fileInfo, opsStarted,
                   stdinOpen, sent, rpcVars, transportVars, baseVars, toolVars, cleanupVars,
                   childVars, functionVars, watcherState, lastFileEvent, walks>>

NoFileEvent ==
    [path |-> NoUri, type |-> 0, excluded |-> FALSE, delivered |-> FALSE, key |-> ChangeKey]

\* openMatchingFiles has been called and awaits readdir of the workspace root.
NoWalk == [pc |-> "readdir", index |-> 1, visited |-> <<>>]

\* addRegistrations, lines 110-123, called through the hook: the watchers are
\* appended and openMatchingFiles is started, not awaited.
addRegistrations_hook(watchers) ==
    /\ Len(walks) < MaxWalks
    /\ registrations' = addRegistrations(registrations, watchers)
    /\ walks' = Append(walks, NoWalk)
    /\ UNCHANGED <<fileWatchHandler, capabilityRequests, diagnosticsVars, initVars, filesVars,
                   rpcVars, transportVars, toolVars, cleanupVars, childVars, debounceVars,
                   functionVars, watcherState, lastFileEvent, notifyingPath>>

\* stop, lines 169-171: this.watcher.close() is called and awaited.
stop ==
    /\ watcherState = "watching"
    /\ watcherState' = "closing"
    /\ UNCHANGED <<lastFileEvent, notifyingPath, walks, filesVars, rpcVars, transportVars, baseVars,
                   toolVars, cleanupVars, childVars, debounceVars, functionVars>>

\* stop, lines 171-173: close() has settled; stop returns.
stop_afterClose ==
    /\ watcherState = "closing"
    /\ watcherState' = "stopped"
    /\ UNCHANGED <<lastFileEvent, notifyingPath, walks, filesVars, rpcVars, transportVars, baseVars,
                   toolVars, cleanupVars, childVars, debounceVars, functionVars>>

----------------------------------------------------------------------------
(* openMatchingFiles (part_007 424-466): the workspace walk. The files of the *)
(* workspace are the Uris, read in ascending order; walk w awaits its         *)
(* client.openFile calls in task w.                                           *)

Walks == 1..MaxWalks

\* Variant of catchOpenError in which the error leaves walkDir.
catchOpenError_rethrow == "failed"

\* openMatchingFiles, lines 448-450: the catch inside the loop; the loop goes on.
catchOpenError == "running"

\* walkDir, line 429: readdir has settled; when it rejects, the walk ends in
\* the catch of line 463.
walk_afterReaddir(w) ==
    /\ w \in 1..Len(walks)
    /\ walks[w].pc = "readdir"
    /\ \E readOk \in BOOLEAN :
          walks' = [walks EXCEPT ![w].pc = IF readOk THEN "running" ELSE "failed"]
    /\ UNCHANGED <<watcherState, lastFileEvent, notifyingPath, filesVars, rpcVars, transportVars,
                   baseVars, toolVars, cleanupVars, childVars, debounceVars, functionVars>>

\* walkDir, lines 431-442: the next entry; a file that is not excluded
\* (`excluded` is what shouldExcludeFile returns for it now) and is watched is
\* handed to client.openFile, whose synchronous part (client.ts 229-239) runs
\* here; the walk awaits it.
walk_visit(w, excluded) ==
    /\ w \in 1..Len(walks) /\ w \in Tasks
    /\ walks[w].pc = "running"
    /\ walks[w].index \in Uris
    /\ LET fullPath == walks[w].index
           opens == ~excluded /\ isPathWatched(fullPath).watched
           visit == [path |-> fullPath, excluded |-> excluded,
                     registered |-> Len(registrations), opened |-> opens, result |-> "none"]
       IN IF opens
            THEN /\ CanStart(w)
                 /\ opsStarted' = opsStarted + 1
                 /\ task' = [task EXCEPT ![w] =
                       IF has(pathToUri([fsPath |-> fullPath]))
                         THEN [IdleTask EXCEPT !.op = "openFile", !.uri = fullPath, !.res = "ok"]
                         ELSE [op |-> "openFile", pc |-> "read", uri |-> fullPath,
                               ref |-> 0, res |-> "none"]]
                 /\ walks' = [walks EXCEPT ![w].pc = "open",
                                           ![w].visited = Append(@, visit)]
            ELSE /\ walks' = [walks EXCEPT ![w].index = @ + 1,
                                           ![w].visited = Append(@, visit)]
                 /\ UNCHANGED <<opsStarted, task>>
    /\ UNCHANGED <<openFiles, fileInfo, stdinOpen, sent, watcherState, lastFileEvent,
                   notifyingPath, rpcVars, transportVars, baseVars, toolVars, cleanupVars,
                   childVars, debounceVars, functionVars>>

\* walkDir, lines 443-450: client.openFile has settled; a rejection is logged
\* and the loop goes on with the next entry.
walk_next(w) ==
    /\ w \in 1..Len(walks) /\ w \in Tasks
    /\ walks[w].pc = "open"
    /\ task[w].op = "openFile" /\ task[w].pc = "idle"
    /\ walks' = [walks EXCEPT
                    ![w].pc = IF task[w].res = "err" THEN catchOpenError ELSE "running",
                    ![w].index = @ + 1,
                    ![w].visited = [@ EXCEPT ![Len(@)].result = task[w].res]]
    /\ task' = [task EXCEPT ![w] = IdleTask]
    /\ UNCHANGED <<openFiles, fileInfo, opsStarted, stdinOpen, sent, watcherState,
                   lastFileEvent, notifyingPath, rpcVars, transportVars, baseVars, toolVars,
                   cleanupVars, childVars, debounceVars, functionVars>>

\* openMatchingFiles, lines 457-461: walkDir has returned.
walk_return(w) ==
    /\ w \in 1..Len(walks)
    /\ walks[w].pc = "running"
    /\ walks[w].index \notin Uris
    /\ walks' = [walks EXCEPT ![w].pc = "done"]
    /\ UNCHANGED <<watcherState, lastFileEvent, notifyingPath, filesVars, rpcVars, transportVars,
                   baseVars, toolVars, cleanupVars, childVars, debounceVars, functionVars>>

InitWatcher ==
    /\ watcherState = "watching"
    /\ lastFileEvent = NoFileEvent
    /\ notifyingPath = NoUri
    /\ walks = <<>>

----------------------------------------------------------------------------
(* Initial values of the variable groups *)

InitFiles ==
    /\ openFiles = [u \in Uris |-> 0]
    /\ fileInfo = <<>>
    /\ task = [t \in Tasks |-> IdleTask]
    /\ opsStarted = 0
    /\ stdinOpen = TRUE
    /\ sent = <<>>

InitRpc ==
    /\ nextId = 1
    /\ pendingRequests = {}
    /\ callState = <<>>
    /\ serverRequestHandlers = {}
    /\ notificationHandlers = {}
    /\ readerPc = "read"
    /\ readerExit = "none"
    /\ messagesRead = 0
    /\ serverRequests = <<>>
    /\ lastDispatch = NoDispatch

InitTransport ==
    /\ submitted = <<>>
    /\ pipe = <<>>
    /\ delivered = <<>>
    /\ buffer = <<>>
    /\ contentLength = -1
    /\ listening = FALSE
    /\ received = <<>>
    /\ readerError = "none"
    /\ ended = FALSE

\* The state after the constructor (client.ts 92-126).
InitLate == InitFunctions /\ InitWatcher

InitMore == InitTools /\ InitCleanup /\ InitChild /\ InitDebounce /\ InitLate

InitExt == InitDiagnostics /\ InitInitialize /\ InitCapability /\ InitMore

Init == InitFiles /\ InitRpc /\ InitTransport /\ InitExt

----------------------------------------------------------------------------
(* SpecFiles: concurrent invocations on the open-file registry *)

NextFiles ==
    \/ \E t \in Tasks, u \in Uris : openFile(t, u)
    \/ \E t \in Tasks : openFile_afterRead(t)
    \/ \E t \in Tasks : openFile_afterNotify(t)
    \/ \E t \in Tasks, u \in Uris : notifyChange(t, u)
    \/ \E t \in Tasks : notifyChange_afterRead(t)
    \/ \E t \in Tasks : notifyChange_afterNotify(t)
    \/ \E t \in Tasks, u \in Uris : closeFile(t, u)
    \/ \E t \in Tasks : closeFile_afterNotify(t)
    \/ close_stdinEnd

SpecFiles ==
    /\ Init
    /\ [][NextFiles]_vars

----------------------------------------------------------------------------
(* SpecRpc: calls, the reader loop and server-request handlers *)

NextRpc ==
    \/ call
    \/ handleMessages
    \/ handleMessages_catch
    \/ \E r \in 1..Len(serverRequests) : handler_returns(r)
    \/ \E r \in 1..Len(serverRequests) : handler_throws(r)
    \/ initialize_registerHandlers
    \/ close_stdinEnd

SpecRpc ==
    /\ Init
    /\ [][NextRpc]_vars

----------------------------------------------------------------------------
(* SpecTransport: frames written by writeMessage, read by a MessageReader *)

NextTransport ==
    \/ \E text \in Texts : call_writeMessage(text)
    \/ \E text \in Texts : notify_writeMessage(text)
    \/ \E id \in 1..MaxMessages : handleServerRequest_writeMessage(id)
    \/ readMessage
    \/ \E k \in 1..MaxChunk : onData(k)
    \/ onEnd

SpecTransport ==
    /\ Init
    /\ [][NextTransport]_vars

----------------------------------------------------------------------------
(* SpecDiagnostics: publishDiagnostics notifications before and after the *)
(* handler is registered                                                  *)

NextDiagnostics ==
    \/ \E params \in PublishParams : handleNotification_publishDiagnostics(params)
    \/ initialize_registerHandlers

SpecDiagnostics ==
    /\ Init
    /\ [][NextDiagnostics]_vars

----------------------------------------------------------------------------
(* SpecInitialize: initialize() against a server that answers, fails or *)
(* sends requests of its own                                            *)

NextInitialize ==
    \/ initialize_call
    \/ initialize_afterCall
    \/ initialize_afterNotify
    \/ \E id \in {NumberId(1), NumberId(2), StringId(1)}, isError \in BOOLEAN :
           handleMessages_response(id, isError)
    \/ \E id \in {NumberId(1), NumberId(2)}, method \in DefaultRequestMethods :
           handleMessages_serverRequest(method, id)
    \/ close_stdinEnd

SpecInitialize ==
    /\ Init
    /\ [][NextInitialize]_vars

----------------------------------------------------------------------------
(* SpecCapability: start() up to the watcher's hook, with               *)
(* client/registerCapability requests arriving at any time               *)

NextCapability ==
    \/ initialize_call
    \/ initialize_afterCall
    \/ initialize_afterNotify
    \/ start_afterInitialize
    \/ \E isError \in BOOLEAN : handleMessages_response(NumberId(1), isError)
    \/ \E id \in {NumberId(1)}, regs \in RegistrationParams :
           handleMessages_registerCapability(id, regs)

SpecCapability ==
    /\ Init
    /\ [][NextCapability]_vars

----------------------------------------------------------------------------
(* SpecFileOps: the same file operations, in short runs *)

NextFileOps ==
    \/ \E t \in Tasks, u \in Uris : opsStarted < MaxContractOps /\ openFile(t, u)
    \/ \E t \in Tasks : openFile_afterRead(t)
    \/ \E t \in Tasks : openFile_afterNotify(t)
    \/ \E t \in Tasks, u \in Uris : opsStarted < MaxContractOps /\ notifyChange(t, u)
    \/ \E t \in Tasks : notifyChange_afterRead(t)
    \/ \E t \in Tasks : notifyChange_afterNotify(t)
    \/ \E t \in Tasks, u \in Uris : opsStarted < MaxContractOps /\ closeFile(t, u)
    \/ \E t \in Tasks : closeFile_afterNotify(t)
    \/ close_stdinEnd

SpecFileOps ==
    /\ Init
    /\ [][NextFileOps]_vars

----------------------------------------------------------------------------
(* SpecTools: tools running while another task closes files *)

NextTools ==
    \/ \E t \in Tasks, m \in ToolMethods, u \in Uris :
          NoToolResuming /\ opsStarted < MaxContractOps /\ tool_begin(t, m, u)
    \/ \E t \in Tasks : NoToolResuming /\ tool_canOpen(t) /\ openFile(t, tool[t].uri)
    \/ \E t \in Tasks : NoToolResuming /\ openFile_afterRead(t)
    \/ \E t \in Tasks : NoToolResuming /\ openFile_afterNotify(t)
    \/ \E t \in Tasks : tool_afterOpenFile(t)
    \/ \E t \in Tasks, u \in Uris :
          NoToolResuming /\ tool[t] = NoTool /\ opsStarted < MaxContractOps /\ closeFile(t, u)
    \/ \E t \in Tasks : NoToolResuming /\ closeFile_afterNotify(t)

SpecTools ==
    /\ Init
    /\ [][NextTools]_vars

----------------------------------------------------------------------------
(* SpecCleanup: the shutdown sequence, with files being opened and the child *)
(* exiting at any moment; SpecClose adds that timers fire                    *)

OtherTasks == Tasks \ {CleanupTask}

NextCleanup ==
    \/ \E t \in OtherTasks, u \in Uris : opsStarted < NumUris /\ openFile(t, u)
    \/ \E t \in OtherTasks : openFile_afterRead(t)
    \/ \E t \in OtherTasks : openFile_afterNotify(t)
    \/ cleanup_begin
    \/ closeAllFiles_atFile /\ closeFile(CleanupTask, pathToUri(uriToPath(files[fileIndex])))
    \/ cleanupPc = "closeAllFiles" /\ closeFile_afterNotify(CleanupTask)
    \/ closeAllFiles_next
    \/ closeAllFiles_return
    \/ shutdown_call
    \/ \E isError \in BOOLEAN : shutdown_afterCall(isError)
    \/ exit_notify
    \/ exit_afterNotify
    \/ close
    \/ child_exit
    \/ close_timeout

SpecCleanup ==
    /\ Init
    /\ [][NextCleanup]_vars

SpecClose ==
    /\ Init
    /\ [][NextCleanup]_vars
    /\ WF_vars(close_timeout)

\* The steps of cleanup() that the bridge takes by itself: every await of
\* cleanup but the response to `shutdown`, which is the server's to send.
cleanup_continue ==
    \/ closeAllFiles_atFile /\ closeFile(CleanupTask, pathToUri(uriToPath(files[fileIndex])))
    \/ cleanupPc = "closeAllFiles" /\ closeFile_afterNotify(CleanupTask)
    \/ closeAllFiles_next
    \/ closeAllFiles_return
    \/ shutdown_call
    \/ exit_notify
    \/ exit_afterNotify
    \/ close

\* SpecShutdown: the same steps; writes settle, continuations run and the
\* grace timer fires, while the server answers and exits as it pleases.
SpecShutdown ==
    /\ Init
    /\ [][NextCleanup]_vars
    /\ WF_vars(cleanup_continue)
    /\ WF_vars(close_timeout)


----------------------------------------------------------------------------
(* SpecDebounce: one burst of Changed events, the file being opened and *)
(* closed by other tasks meanwhile                                       *)

NextDebounce ==
    \/ handleFileEvent
    \/ debounceFileEvent_timeout
    \/ debounceNotifyChange_timeout
    \/ notifying /\ task[WatcherTask].op # "notifyChange" /\ notifyChange(WatcherTask, WatchedPath)
    \/ debounceNotifyChange_called
    \/ NoCallbackRunning /\ notifyChange_afterRead(WatcherTask)
    \/ NoCallbackRunning /\ notifyChange_afterNotify(WatcherTask)
    \/ \E t \in Tasks \ {WatcherTask} :
          NoCallbackRunning /\ opsStarted < MaxContractOps /\ openFile(t, WatchedPath)
    \/ \E t \in Tasks \ {WatcherTask} : NoCallbackRunning /\ openFile_afterRead(t)
    \/ \E t \in Tasks \ {WatcherTask} : NoCallbackRunning /\ openFile_afterNotify(t)
    \/ \E t \in Tasks \ {WatcherTask} :
          NoCallbackRunning /\ opsStarted < MaxContractOps /\ closeFile(t, WatchedPath)
    \/ \E t \in Tasks \ {WatcherTask} : NoCallbackRunning /\ closeFile_afterNotify(t)
    \/ tick

SpecDebounce ==
    /\ Init
    /\ [][NextDebounce]_vars

----------------------------------------------------------------------------
(* SpecGlob: matchesPattern on every path and pattern value *)

NextGlob ==
    \E normalizedPath \in RelativePaths, value \in PatternValues :
        matchesPattern_call(normalizedPath, value)

SpecGlob ==
    /\ Init
    /\ [][NextGlob]_vars

----------------------------------------------------------------------------
(* SpecWatcher: registrations arriving, events of every type on every path, *)
(* timers firing, files opened and closed, the watcher stopped              *)

NextWatcher ==
    \/ \E watchers \in WatcherSets : walks = <<>> /\ addRegistrations_hook(watchers)
    \/ \E filePath \in Uris, changeType \in FileChangeTypes, excluded \in BOOLEAN,
          t \in Tasks : handleFileEvent_of(filePath, changeType, excluded, t)
    \/ \E filePath \in Uris, changeType \in FileChangeTypes :
          debounceFileEvent_fired(filePath, changeType)
    \/ \E filePath \in Uris : debounceNotifyChange_fired(filePath)
    \/ notifying /\ task[WatcherTask].op # "notifyChange"
                 /\ notifyChange(WatcherTask, notifyingPath)
    \/ debounceNotifyChange_called
    \/ NoCallbackRunning /\ notifyChange_afterRead(WatcherTask)
    \/ NoCallbackRunning /\ notifyChange_afterNotify(WatcherTask)
    \/ \E t \in Tasks \ {WatcherTask} : NoCallbackRunning /\ openFile_afterRead(t)
    \/ \E t \in Tasks \ {WatcherTask} : NoCallbackRunning /\ openFile_afterNotify(t)
    \/ tick
    \/ stop
    \/ stop_afterClose

SpecWatcher ==
    /\ Init
    /\ [][NextWatcher]_vars

----------------------------------------------------------------------------
(* SpecWalk: registration sets arriving at any moment, each starting a walk *)

NextWalk ==
    \/ \E watchers \in WatcherSets : addRegistrations_hook(watchers)
    \/ \E w \in Walks : walk_afterReaddir(w)
    \/ \E w \in Walks, excluded \in BOOLEAN : walk_visit(w, excluded)
    \/ \E w \in Walks : walk_next(w)
    \/ \E w \in Walks : walk_return(w)
    \/ \E t \in Tasks : openFile_afterRead(t)
    \/ \E t \in Tasks : openFile_afterNotify(t)

SpecWalk ==
    /\ Init
    /\ [][NextWalk]_vars

----------------------------------------------------------------------------
(* SpecEdit: applyWorkspaceEdit on every list of edits of the file *)

NextEdit ==
    /\ ~editCall.made
    /\ \E edits \in EditLists : applyWorkspaceEdit_call(FileContent, edits)

SpecEdit ==
    /\ Init
    /\ [][NextEdit]_vars

----------------------------------------------------------------------------
(* SpecDefinition: getFullDefinition on every file and reported range *)

NextDefinition ==
    /\ ~definitionCall.made
    /\ \E lines \in SourceFiles : \E range \in ReportedRanges(lines) :
          range.start.line <= range.end.line /\ getFullDefinition_call(lines, range)

SpecDefinition ==
    /\ Init
    /\ [][NextDefinition]_vars

----------------------------------------------------------------------------
(* SpecSymbols: readDefinition on every query and result list *)

NextSymbols ==
    /\ ~symbolCall.made
    /\ \E symbolName \in SymbolQueries, results \in SymbolResults :
          readDefinition_call(symbolName, results)

SpecSymbols ==
    /\ Init
    /\ [][NextSymbols]_vars

----------------------------------------------------------------------------
(* SpecDisplay: getLineRangesToDisplay on every list of locations;          *)
(* SpecRanges: convertLinesToRanges on every set of lines                   *)

NextDisplay ==
    /\ ~displayCall.made
    /\ \E input \in DisplayInputs : getLineRangesToDisplay_call(input)

SpecDisplay ==
    /\ Init
    /\ [][NextDisplay]_vars

NextRanges ==
    /\ ~rangesCall.made
    /\ \E lines \in SUBSET LineIndices : convertLinesToRanges_call(lines)

SpecRanges ==
    /\ Init
    /\ [][NextRanges]_vars

----------------------------------------------------------------------------
(* SpecLocation: getLocation of the wrapper of every workspace/symbol result *)

NextLocation ==
    /\ ~locationCall.made
    /\ \E symbol \in WorkspaceSymbols : getLocation_call(symbol)

SpecLocation ==
    /\ Init
    /\ [][NextLocation]_vars

----------------------------------------------------------------------------
(* SpecTextEdits: applyTextEdits on every list of line edits *)

NextTextEdits ==
    /\ ~textEditsCall.made
    /\ \E content \in TextContents, edits \in LineEditLists, opens \in BOOLEAN :
          applyTextEdits_call(content, edits, opens)

SpecTextEdits ==
    /\ Init
    /\ [][NextTextEdits]_vars

----------------------------------------------------------------------------
(* SpecCache: any sequence of calls on the workspace-symbol cache *)

NextCache ==
    \/ \E symbolName \in QueryNames, symbols \in CachedSymbols :
          setWorkspaceSymbols(symbolName, symbols)
    \/ \E symbolName \in QueryNames, expired \in BOOLEAN :
          getWorkspaceSymbols(symbolName, expired)
    \/ invalidateWorkspaceSymbols

SpecCache ==
    /\ Init
    /\ [][NextCache]_vars

----------------------------------------------------------------------------
(* SpecEvents: file events on a workspace whose files are opened and closed   *)
(* through the client while the debounce timers run                         *)

\* The operations started through the client are few enough to leave room for
\* those the events start.
CanStartTool == NoCallbackRunning /\ opsStarted < MaxToolOps

\* An event arrives early enough for its timer to expire within MaxTime.
CanArm == now + DebounceTime <= MaxTime

ToolTasks == Tasks \ {WatcherTask}

handleFileEvent_step ==
    \E filePath \in Uris, changeType \in FileChangeTypes, excluded \in BOOLEAN, t \in Tasks :
        CanArm /\ handleFileEvent_of(filePath, changeType, excluded, t)

debounce_step ==
    \/ \E filePath \in Uris, changeType \in FileChangeTypes :
          debounceFileEvent_fired(filePath, changeType)
    \/ \E filePath \in Uris : debounceNotifyChange_fired(filePath)
    \/ notifying /\ task[WatcherTask].op # "notifyChange"
                 /\ notifyChange(WatcherTask, notifyingPath)
    \/ debounceNotifyChange_called

continue_step ==
    \/ NoCallbackRunning /\ notifyChange_afterRead(WatcherTask)
    \/ NoCallbackRunning /\ notifyChange_afterNotify(WatcherTask)
    \/ \E t \in ToolTasks : NoCallbackRunning /\ openFile_afterRead(t)
    \/ \E t \in ToolTasks : NoCallbackRunning /\ openFile_afterNotify(t)
    \/ \E t \in ToolTasks : NoCallbackRunning /\ closeFile_afterNotify(t)

\* Time is followed while a timer is pending.
timePasses == armed # {} /\ tick

NextEvents ==
    \/ \E watchers \in WatcherSets : walks = <<>> /\ addRegistrations_hook(watchers)
    \/ handleFileEvent_step
    \/ debounce_step
    \/ continue_step
    \/ \E t \in ToolTasks, uri \in Uris : CanStartTool /\ openFile(t, uri)
    \/ \E t \in ToolTasks, uri \in Uris : CanStartTool /\ closeFile(t, uri)
    \/ timePasses

SpecEvents ==
    /\ Init
    /\ [][NextEvents]_vars

----------------------------------------------------------------------------
(* SpecChanges: Changed events on files that are opened and closed through  *)
(* the client, every file of the workspace being watched; time passes, due  *)
(* timers fire and started operations are continued                         *)

handleFileEvent_changed ==
    \E filePath \in Uris, excluded \in BOOLEAN :
        CanArm /\ handleFileEvent_of(filePath, Changed, excluded, WatcherTask)

NextChanges ==
    \/ handleFileEvent_changed
    \/ debounce_step
    \/ continue_step
    \/ \E t \in ToolTasks, uri \in Uris : CanStartTool /\ openFile(t, uri)
    \/ \E t \in ToolTasks, uri \in Uris : CanStartTool /\ closeFile(t, uri)
    \/ timePasses

SpecChanges ==
    /\ Init
    /\ [][NextChanges]_vars
    /\ WF_vars(timePasses)
    /\ WF_vars(debounce_step)
    /\ WF_vars(continue_step)


----------------------------------------------------------------------------
(* Claims about the open-file registry, checked under SpecFiles *)

\* Positions of the messages of `sent` for uri u with a method in ms.
Positions(u, ms) == {i \in 1..Len(sent) : sent[i].uri = u /\ sent[i].method \in ms}

\* The position of the last didOpen/didClose for u before position j, 0 if none.
LastLifecycleBefore(u, j) ==
    LET before == {i \in Positions(u, {DidOpen, DidClose}) : i < j}
    IN IF before = {} THEN 0 ELSE CHOOSE i \in before : \A k \in before : k <= i

\* The number of didOpen for u written since the last didClose for u (or since start).
OpensSinceLastClose(u) ==
    LET lastClose == LastLifecycleBefore(u, Len(sent) + 1)
        closes == Positions(u, {DidClose})
        from == IF closes = {} THEN 0 ELSE CHOOSE i \in closes : \A k \in closes : k <= i
    IN Cardinality({i \in Positions(u, {DidOpen}) : i > from})

OpenOrCloseInProgress(u) ==
    \E t \in Tasks : task[t].pc # "idle" /\ task[t].uri = u
                     /\ task[t].op \in {"openFile", "closeFile"}

\* C1: whenever no openFile or closeFile of uri U is in progress, U is in the
\* registry iff exactly one didOpen for U was written since the last didClose
\* for U (or since start); and no two didOpen for U are written without a
\* didClose between them, no two didClose without a didOpen between them.
C1_RegistryMatchesWire ==
    \A u \in Uris :
        /\ ~OpenOrCloseInProgress(u) => (has(u) <=> OpensSinceLastClose(u) = 1)
        /\ \A j \in Positions(u, {DidOpen}) :
               LastLifecycleBefore(u, j) = 0 \/ sent[LastLifecycleBefore(u, j)].method = DidClose
        /\ \A j \in Positions(u, {DidClose}) :
               LastLifecycleBefore(u, j) # 0 /\ sent[LastLifecycleBefore(u, j)].method = DidOpen

\* C9: between a didOpen for U and the next didClose for U the versions of that
\* didOpen and of the didChange notifications after it strictly increase in wire
\* order (1 on open, no version repeated), and every didChange carries the
\* version the registry stores for U when it is sent.
C9_VersionsIncrease ==
    \A u \in Uris :
        /\ \A j \in Positions(u, {DidOpen}) : sent[j].version = 1
        /\ \A i \in Positions(u, {DidOpen, DidChange}) : \A j \in Positions(u, {DidChange}) :
               (i < j /\ LastLifecycleBefore(u, j) # 0
                      /\ LastLifecycleBefore(u, j) <= i
                      /\ sent[LastLifecycleBefore(u, j)].method = DidOpen)
                   => sent[i].version < sent[j].version
        /\ \A j \in Positions(u, {DidChange}) :
               (LastLifecycleBefore(u, j) # 0 /\ sent[LastLifecycleBefore(u, j)].method = DidOpen)
                   => sent[j].version = sent[j].registry

\* C10: every didChange and every didClose for a uri is written while the uri is
\* open at the server: the last didOpen/didClose for it written before is a didOpen.
C10_WrittenWhileOpen ==
    \A u \in Uris : \A j \in Positions(u, {DidChange, DidClose}) :
        LastLifecycleBefore(u, j) # 0 /\ sent[LastLifecycleBefore(u, j)].method = DidOpen

----------------------------------------------------------------------------
(* Claims about request correlation and the reader loop, checked under SpecRpc *)

\* The step read a message (one iteration of handleMessages).
ReadStep == messagesRead' = messagesRead + 1

\* The step read a message that handleResponse looked up under `key`.
Responded(key) ==
    /\ ReadStep
    /\ lastDispatch'.sink = "response"
    /\ lastDispatch'.msg.id # IdNull
    /\ toString(lastDispatch'.msg.id) = key

C2_Step ==
    /\ \A i, j \in 1..Len(callState') : i < j => callState'[i].id < callState'[j].id
    /\ Len(callState') # Len(callState) =>
          /\ Len(callState') = Len(callState) + 1
          /\ LET c == callState'[Len(callState')]
             IN /\ \A i \in 1..Len(callState) : callState'[i] = callState[i] /\ callState[i].id < c.id
                /\ c.id \notin pendingRequests
                /\ pendingRequests' = pendingRequests \cup {c.id}
    /\ Len(callState') = Len(callState) =>
          \A key \in pendingRequests \cup pendingRequests' \cup {callState[i].id : i \in 1..Len(callState)} :
              IF Responded(key) /\ key \in pendingRequests
                THEN /\ pendingRequests' = pendingRequests \ {key}
                     /\ \A i \in 1..Len(callState) :
                            IF callState[i].id = key /\ callState[i].st = "waiting"
                              THEN callState'[i].st = IF lastDispatch'.msg.error THEN "threw" ELSE "returned"
                              ELSE callState'[i] = callState[i]
                ELSE /\ (key \in pendingRequests') = (key \in pendingRequests)
                     /\ \A i \in 1..Len(callState) :
                            callState[i].id = key => callState'[i] = callState[i]

\* C2: every call() allocates an id greater than every id allocated before and
\* inserts exactly one table entry under it; the entry is removed exactly when a
\* response with that id is dispatched, which completes that call and no other;
\* a second response with the id, or a response matching no entry, completes
\* nothing and changes no entry.
C2_RequestCorrelation == [][C2_Step]_vars

\* A call was completed by its response and a second response with the same id
\* has been dispatched since.
C2_Witness ==
    /\ lastDispatch.sink = "response"
    /\ lastDispatch.msg.id # IdNull
    /\ lastDispatch.completed = 0
    /\ \E i \in 1..Len(callState) :
          /\ callState[i].id = toString(lastDispatch.msg.id)
          /\ callState[i].st = "returned"
    /\ \E i \in 1..Len(callState) : callState[i].st = "waiting"

\* C3: when the reader loop has terminated because of a transport error, no
\* call() is left waiting: every pending call was completed with an error.
C3_PendingFailOnTransportError ==
    (readerPc = "terminated" /\ readerExit \in TransportErrors)
        => \A i \in 1..Len(callState) : callState[i].st # "waiting"

\* The sink a message must reach when `hasMethod` tells whether it carries a method.
ExpectedSink(m, hasMethod(_)) ==
    IF hasMethod(m.method) /\ m.id # IdUndefined THEN "serverRequest"
    ELSE IF hasMethod(m.method) THEN "notification"
    ELSE IF m.id # IdUndefined THEN "response"
    ELSE "dropped"

\* The effect of reading a message, sink by sink: a server request is recorded
\* for handleServerRequest (and nothing is looked up), a notification reaches
\* the handler registered for its method (if any) and changes nothing else, a
\* response is looked up in the Pending Request Table and touches no server
\* request, any other message changes nothing.
RoutedStep(hasMethod(_)) ==
    ReadStep =>
        LET m == lastDispatch'.msg
            expected == ExpectedSink(m, hasMethod)
        IN /\ expected = "serverRequest" =>
                 /\ Len(serverRequests') = Len(serverRequests) + 1
                 /\ serverRequests'[Len(serverRequests')].id = m.id
                 /\ UNCHANGED <<pendingRequests, callState, readerPc, readerExit>>
           /\ expected = "notification" =>
                 /\ lastDispatch'.handled = (m.method \in notificationHandlers)
                 /\ UNCHANGED <<pendingRequests, callState, serverRequests, readerPc, readerExit>>
           /\ expected = "response" =>
                 /\ UNCHANGED serverRequests
                 /\ m.id # IdNull =>
                       /\ pendingRequests' = pendingRequests \ {toString(m.id)}
                       /\ lastDispatch'.handled = (toString(m.id) \in pendingRequests)
           /\ expected = "dropped" =>
                 /\ ~lastDispatch'.handled
                 /\ UNCHANGED <<pendingRequests, callState, serverRequests, readerPc, readerExit>>
           /\ UNCHANGED <<nextId, serverRequestHandlers, notificationHandlers>>

present(method) == method # NoMethod

\* C4 as stated: each message read is routed to exactly one sink decided by
\* the presence of `method` and `id`, and a message that carries a method never
\* completes a pending call.
C4_RoutedByPresence == [][RoutedStep(present)]_vars

\* C4 as amended: the sink is decided by whether `method` is a non-empty string
\* and whether `id` is defined; a message with a non-empty method changes no
\* pending call, a message with neither changes nothing.
C4_RoutedByNonEmptyMethod == [][RoutedStep(truthy)]_vars

\* A server request whose id is the id of a pending call was dispatched and the
\* call is still pending.
C4_Witness ==
    /\ lastDispatch.sink = "serverRequest"
    /\ lastDispatch.msg.id.k = "number"
    /\ toString(lastDispatch.msg.id) \in pendingRequests
    /\ \E i \in 1..Len(callState) :
          callState[i].id = toString(lastDispatch.msg.id) /\ callState[i].st = "waiting"

\* C5: for every server request exactly one response with the request's id is
\* handed to the writer: -32601 at once when no handler was registered for the
\* method, the result when the handler returned, -32603 when it threw; none
\* while the handler runs.
C5_OneResponsePerRequest ==
    \A r \in 1..Len(serverRequests) :
        LET q == serverRequests[r]
        IN /\ (q.st = "noHandler") <=> ~q.registered
           /\ q.st = "running" => q.written = 0
           /\ q.st # "running" => q.written = 1 /\ q.response.id = q.id
           /\ q.st = "returned" => q.response.kind = "result"
           /\ q.st = "threw" => q.response.kind = "error" /\ q.response.code = -32603
           /\ q.st = "noHandler" => q.response.kind = "error" /\ q.response.code = -32601

\* One request was answered -32601 for want of a handler, another one -32603
\* after its handler threw.
C5_Witness ==
    \E r1, r2 \in 1..Len(serverRequests) :
        /\ serverRequests[r1].st = "noHandler" /\ serverRequests[r1].written = 1
        /\ serverRequests[r2].st = "threw" /\ serverRequests[r2].response.code = -32603

SomeHandlerRunning == \E r \in 1..Len(serverRequests) : serverRequests[r].st = "running"

\* C6: while a server-request handler has been invoked and has not returned,
\* the reader loop is ready to read and dispatch the next message.
C6_ReaderNotBlocked ==
    (SomeHandlerRunning /\ readerPc # "terminated" /\ messagesRead < MaxRead)
        => ENABLED handleMessages

\* A response completed its call while a handler invoked earlier was still running.
C6_Witness ==
    /\ SomeHandlerRunning
    /\ lastDispatch.sink = "response"
    /\ lastDispatch.completed # 0

----------------------------------------------------------------------------
(* Claims about the transport, checked under SpecTransport *)

RECURSIVE Frames(_)
\* The bytes of the frames of a sequence of messages, one after the other.
Frames(ms) ==
    IF ms = <<>> THEN <<>>
    ELSE LET content == stringify(Head(ms))
         IN utf8(HeaderName \o ToDecimal(Len(utf8(content))) \o Separator \o content)
                \o Frames(Tail(ms))

IsPrefix(s, t) == Len(s) <= Len(t) /\ SubSeq(t, 1, Len(s)) = s

\* C7: the messages framed by writeMessage and delivered in chunks of any size
\* are resolved by successive readMessage() calls in the original order and
\* with equal content, none lost, none invented, no read rejected; once every
\* byte is delivered and the reader waits again, all of them were resolved.
C7_ReaderYieldsWrittenMessages ==
    /\ readerError \in {"none", "LSP connection closed (EOF)"}
    /\ IsPrefix(received, submitted)
    /\ (pipe = <<>> /\ listening) => received = submitted

\* A chunk held the end of the first frame, whose text is non-ASCII, and the
\* start of the second: the first message was resolved and the bytes after it
\* wait in the buffer for the next readMessage().
C7_Witness ==
    /\ Len(submitted) = 2
    /\ received = <<submitted[1]>>
    /\ submitted[1].text = <<Accented>>
    /\ ~listening
    /\ buffer # <<>>
    /\ pipe # <<>>

\* C8: the bytes that reached the stream are the whole frames of the submitted
\* messages, in the order of submission.
C8_FramesWholeInOrder ==
    delivered \o pipe = Frames(submitted)

\* A request, then a response were submitted and part of the bytes was
\* delivered before the second submission.
C8_Witness ==
    /\ Len(submitted) = 2
    /\ submitted[1].kind = "request"
    /\ submitted[2].kind = "response"
    /\ delivered # <<>> /\ pipe # <<>>
    /\ Len(delivered) < Len(Frames(<<submitted[1]>>))

----------------------------------------------------------------------------
(* Claims about the diagnostics store, checked under SpecDiagnostics *)

ListOf(params) == IF params.hasDiagnostics THEN params.diagnostics ELSE <<>>

\* The list of the last notification for uri among those that satisfy Counted
\* (a missing list counts as the empty list); the empty list if there is none.
LastListFor(uri, Counted(_)) ==
    LET at == {i \in 1..Len(notifications) :
                  notifications[i].params.uri = uri /\ Counted(notifications[i])}
    IN IF at = {} THEN <<>>
       ELSE ListOf(notifications[CHOOSE i \in at : \A j \in at : j <= i].params)

Arrived(n) == TRUE
Handled(n) == n.handled

----------------------------------------------------------------------------
(* Claims about initialize, checked under SpecInitialize *)

InitializedWritten ==
    \E i \in 1..Len(stdinLog) : stdinLog[i] = WrittenNotification(InitializedMethod)

DefaultHandlersInstalled ==
    serverRequestHandlers # {} \/ notificationHandlers # {}

\* C12: the first message on the wire is the `initialize` request; `initialized`
\* is written only after a result response to it was dispatched; the default
\* handlers are installed only after `initialized` was written; after an error
\* response initialize() fails, `initialized` is never written and no default
\* handler is installed.
C12_InitializeOrder ==
    /\ stdinLog # <<>> => stdinLog[1] = WrittenRequest(InitializeMethod, 1)
    /\ InitializedWritten => initResponse = "result"
    /\ DefaultHandlersInstalled => InitializedWritten
    /\ initResponse = "error" =>
          /\ initPc \in {"awaitResponse", "failed"}
          /\ ~InitializedWritten
          /\ ~DefaultHandlersInstalled
    /\ initPc = "done" => DefaultHandlersInstalled

\* initialize() has returned: the request, the reply to a server request that
\* arrived before the handlers were installed, then `initialized` are on the wire.
C12_Witness ==
    /\ initPc = "done"
    /\ Len(stdinLog) = 3
    /\ stdinLog[2].code = MethodNotFound
    /\ stdinLog[3] = WrittenNotification(InitializedMethod)
    /\ RequestMethod \in serverRequestHandlers

----------------------------------------------------------------------------
(* Claims about client/registerCapability, checked under SpecCapability *)

RECURSIVE WatchersOf(_)
\* The watchers of the workspace/didChangeWatchedFiles registrations of a
\* request, in order.
WatchersOf(regs) ==
    IF regs = <<>> THEN <<>>
    ELSE (IF Head(regs).method = DidChangeWatchedFilesMethod THEN Head(regs).watchers ELSE <<>>)
             \o WatchersOf(Tail(regs))

RECURSIVE AcknowledgedWatchers(_)
\* The watchers of all requests answered with a result, in order.
AcknowledgedWatchers(requests) ==
    IF requests = <<>> THEN <<>>
    ELSE (IF Head(requests).response = "result" THEN WatchersOf(Head(requests).registrations)
          ELSE <<>>) \o AcknowledgedWatchers(Tail(requests))

\* C13: the watcher's registrations are exactly the watchers of the
\* workspace/didChangeWatchedFiles registrations of the requests answered with a
\* null result, in order: none that was acknowledged is missing.
C13_AcknowledgedRegistrationsKept ==
    registrations = AcknowledgedWatchers(capabilityRequests)

\* A request read before the handlers were installed was refused, and a later
\* one with two registrations was acknowledged, both watcher lists appended.
C13_Witness ==
    /\ Len(capabilityRequests) = 2
    /\ capabilityRequests[1].response = "error"
    /\ WatchersOf(capabilityRequests[1].registrations) # <<>>
    /\ capabilityRequests[2].response = "result"
    /\ Len(capabilityRequests[2].registrations) = 2
    /\ registrations = <<"**/*.ts", "**/*.go", "*.mod">>

----------------------------------------------------------------------------
(* Contracts of one openFile / notifyChange / closeFile invocation, checked *)
(* under SpecFileOps on every step of every invocation                      *)

RegistryUnchanged == openFiles' = openFiles /\ fileInfo' = fileInfo

WroteOnly(method, uri) ==
    /\ Len(sent') = Len(sent) + 1
    /\ SubSeq(sent', 1, Len(sent)) = sent
    /\ sent'[Len(sent')].method = method
    /\ sent'[Len(sent')].uri = uri

ReturnedAtOnce(t, res) == task'[t].pc = "idle" /\ task'[t].res = res

\* C14: an openFile on a uri without an entry writes nothing before the file
\* is read, then exactly one didOpen with version 1, and on completion the
\* registry holds the uri with version 1 and no other entry changed; an
\* openFile on a uri that has an entry returns at once, writes nothing and
\* leaves registry and versions as they are.
C14_OpenFileStep ==
    \A t \in Tasks :
       /\ \A uri \in Uris :
             openFile(t, uri) =>
                /\ sent' = sent /\ RegistryUnchanged
                /\ IF openFiles[uri] # 0 THEN ReturnedAtOnce(t, "ok")
                                         ELSE task'[t].pc = "read"
       /\ openFile_afterRead(t) =>
             /\ RegistryUnchanged
             /\ IF task'[t].pc = "written"
                  THEN WroteOnly(DidOpen, task[t].uri) /\ sent'[Len(sent')].version = 1
                  ELSE sent' = sent
       /\ openFile_afterNotify(t) =>
             /\ sent' = sent
             /\ \A v \in Uris \ {task[t].uri} : openFiles'[v] = openFiles[v]
             /\ IF task'[t].res = "ok"
                  THEN /\ openFiles'[task[t].uri] # 0
                       /\ fileInfo'[openFiles'[task[t].uri]] = 1
                  ELSE RegistryUnchanged

C14_OpenFileIdempotent == [][C14_OpenFileStep]_vars

\* Two openFile invocations on uri 1 have returned, one didOpen was written
\* and the entry holds version 1.
C14_Witness ==
    /\ opsStarted = 2
    /\ \A t \in {1, 2} : task[t] = [IdleTask EXCEPT !.op = "openFile", !.uri = 1, !.res = "ok"]
    /\ Len(sent) = 1 /\ sent[1].method = DidOpen /\ sent[1].version = 1
    /\ has(1) /\ fileInfo[openFiles[1]] = 1

\* C15: a notifyChange on a uri without an entry fails at once, writes nothing
\* and leaves the registry unchanged.
C15_NotifyChangeStep ==
    \A t \in Tasks, uri \in Uris :
       (notifyChange(t, uri) /\ openFiles[uri] = 0) =>
           /\ ReturnedAtOnce(t, "err")
           /\ sent' = sent
           /\ RegistryUnchanged

C15_NotifyChangeUnopenedFails == [][C15_NotifyChangeStep]_vars

\* A notifyChange on uri 2 has failed while only uri 1 is open.
C15_Witness ==
    /\ \E t \in Tasks : task[t] = [IdleTask EXCEPT !.op = "notifyChange", !.uri = 2, !.res = "err"]
    /\ has(1) /\ ~has(2)
    /\ Len(sent) = 1

\* C16: a closeFile on a uri that has an entry writes exactly one didClose and
\* on completion the entry is gone, all others untouched, so isFileOpen is
\* false; isFileOpen is true when an openFile returns; a closeFile on a uri
\* without an entry returns at once, writes nothing and changes nothing.
C16_CloseFileStep ==
    \A t \in Tasks :
       /\ \A uri \in Uris :
             closeFile(t, uri) =>
                /\ RegistryUnchanged
                /\ IF openFiles[uri] = 0 THEN sent' = sent /\ ReturnedAtOnce(t, "ok")
                   ELSE IF stdinOpen THEN WroteOnly(DidClose, uri)
                   ELSE sent' = sent
       /\ closeFile_afterNotify(t) =>
             /\ sent' = sent /\ fileInfo' = fileInfo
             /\ \A v \in Uris \ {task[t].uri} : openFiles'[v] = openFiles[v]
             /\ IF task'[t].res = "ok" THEN ~isFileOpen(task[t].uri)'
                                       ELSE openFiles' = openFiles
       /\ \A uri \in Uris :
             ((openFile(t, uri) \/ openFile_afterNotify(t)) /\ task'[t].uri = uri
                  /\ ReturnedAtOnce(t, "ok"))
                => isFileOpen(uri)'

C16_CloseFileRemoves == [][C16_CloseFileStep]_vars

\* uri 1 was opened, closed, and closed once more: one didOpen and one
\* didClose were written and the uri has no entry.
C16_Witness ==
    /\ opsStarted = 3
    /\ \A t \in Tasks : task[t].pc = "idle"
    /\ \E t \in Tasks : task[t] = [IdleTask EXCEPT !.op = "closeFile", !.uri = 1, !.res = "ok"]
    /\ Len(sent) = 2
    /\ sent[1].method = DidOpen /\ sent[1].uri = 1
    /\ sent[2].method = DidClose /\ sent[2].uri = 1
    /\ ~isFileOpen(1)

----------------------------------------------------------------------------
(* Tool requests and the server's view of open documents, checked under SpecTools *)

\* C17: every hover, references and rename request is written while its uri is
\* open at the server: a didOpen for the uri was written before it and no
\* didClose for the uri was written between that didOpen and the request.
C17_ToolRequestWhileOpen ==
    \A u \in Uris : \A j \in Positions(u, ToolMethods) :
        LastLifecycleBefore(u, j) # 0 /\ sent[LastLifecycleBefore(u, j)].method = DidOpen

----------------------------------------------------------------------------
(* The shutdown sequence, checked under SpecCleanup and SpecClose *)

\* The steps the sequence consists of for the snapshot `files`.
RECURSIVE closeSteps(_)
closeSteps(fs) ==
    IF fs = <<>> THEN <<>>
    ELSE <<[step |-> "closeFile", uri |-> Head(fs)]>> \o closeSteps(Tail(fs))

Sequence ==
    closeSteps(files) \o <<[step |-> ShutdownMethod, uri |-> NoUri],
                           [step |-> ExitMethod, uri |-> NoUri],
                           [step |-> "close", uri |-> NoUri]>>

\* The number of steps of the sequence that have settled at each position of cleanup.
StepsSettled ==
    CASE cleanupPc = "notStarted" -> 0
      [] cleanupPc = "closeAllFiles" -> fileIndex - 1
      [] cleanupPc \in {"shutdown", "shutdownWait"} -> Len(files)
      [] cleanupPc \in {"exit", "exitWait", "exitFailed"} -> Len(files) + 1
      [] cleanupPc = "close" -> Len(files) + 2
      [] cleanupPc \in {"closeWait", "done"} -> Len(files) + 3

\* C18: whatever errors were logged, the steps that have settled are the
\* sequence closeFile for each file of the snapshot, shutdown, exit, close, in
\* that order and without a gap, as far as cleanup has come; and a step that
\* logged an error is followed by the next step like one that did not.
C18_ErrorsNeverSkipSteps ==
    /\ Len(steps) = StepsSettled
    /\ cleanupPc # "notStarted" =>
          \A i \in 1..Len(steps) :
              /\ i <= Len(Sequence)
              /\ steps[i].step = Sequence[i].step
              /\ steps[i].uri = Sequence[i].uri

\* The first file was closed, the child exited, the didClose of the second
\* file, the shutdown request and the exit notification failed, and close()
\* was still called.
C18_Witness ==
    /\ Len(files) = 2
    /\ Len(steps) = 5
    /\ ~steps[1].error
    /\ steps[2].step = "closeFile" /\ steps[2].error
    /\ steps[3].step = ShutdownMethod /\ steps[3].error
    /\ steps[4].step = ExitMethod /\ steps[4].error
    /\ steps[5].step = "close"

CloseCalled == cleanupPc \in {"closeWait", "done"}

\* C19: once close() is called it resolves; stdin is ended from the call on;
\* when it has resolved, the listener of close() has observed the child's exit
\* or the child was sent SIGKILL; SIGKILL is sent only by the grace timer
\* firing while the listener has not observed an exit, and never after the
\* listener observed the exit before the timer fired.
C19_CloseCompletes ==
    /\ [](CloseCalled => ~stdinOpen)
    /\ [](cleanupPc = "done" => (exitObserved \/ killed))
    /\ [](timer = "cleared" => ~killed)
    /\ [][(killed' /\ ~killed) => (timer = "armed" /\ ~exitObserved)]_vars
    /\ (cleanupPc = "closeWait" ~> cleanupPc = "done")

\* close() resolved by the grace timer: the child had exited before close()
\* was called, so no exit was observed, and SIGKILL was sent.
C19_Witness ==
    /\ cleanupPc = "done"
    /\ killed /\ ~exitObserved /\ childExited
    /\ timer = "fired"

----------------------------------------------------------------------------
(* The debounce of Changed events, checked under SpecDebounce *)

\* The notifications about the path written so far.
ChangeNotifications ==
    {i \in 1..Len(sent) : sent[i].uri = WatchedPath
                          /\ sent[i].method \in {DidChange, DidChangeWatchedFiles}}

\* Less than DebounceTime has passed since the most recent event.
InBurst == eventsSeen > 0 /\ now < lastEvent + DebounceTime

\* The burst is over and everything it set off has finished.
Quiescent ==
    /\ eventsSeen > 0 /\ ~InBurst
    /\ armed = {} /\ ~notifying
    /\ \A t \in Tasks : task[t].pc = "idle"

\* The watcher's notifyChange did not fail (file unreadable, or closed again
\* before the timer fired).
NoFailure == task[WatcherTask].res # "err"

----------------------------------------------------------------------------
(* Pattern matching, checked under SpecGlob *)

\* The pattern is `**/*.EXT` or `*.EXT`, and the path ends with `.EXT`.
ExtensionShape(pattern) ==
    \/ startsWith(pattern, StarDot)
    \/ startsWith(pattern, DeepPrefix \o StarDot)

ExtensionOf(pattern) ==
    IF startsWith(pattern, StarDot) THEN SubSeq(pattern, 2, Len(pattern))
                                    ELSE SubSeq(pattern, 5, Len(pattern))

----------------------------------------------------------------------------
(* Claims about the file events of the watcher, checked under SpecWatcher *)

\* A step of handleFileEvent on an event that passed every filter.
EventDelivered == eventsSeen' = eventsSeen + 1 /\ lastFileEvent'.delivered

\* The timers a step has armed.
NewTimers == armed' \ armed

\* The timer whose callback starts in this step.
FiredTimers == IF eventsSeen' = eventsSeen THEN armed \ armed' ELSE {}

\* C21: an accepted event that passes the kind mask arms the timer of
\* change:path when it is Changed and the path's uri is in the registry, and
\* the timer of (path, type) otherwise; the first timer, when it fires, calls
\* notifyChange for the path and writes nothing itself, the second writes one
\* workspace/didChangeWatchedFiles with the single change (uri, type) and calls
\* nothing; a Created event also starts client.openFile for the path, and an
\* open that fails changes neither the timers nor the messages.
C21_EventRouting ==
    /\ [][EventDelivered =>
            LET e == lastFileEvent'
                expected == IF e.type = Changed /\ has(e.path) THEN changeKey(e.path)
                            ELSE fileEventKey(e.path, e.type)
            IN /\ [key |-> expected, deadline |-> now + DebounceTime] \in armed'
               /\ \A tm \in NewTimers : tm.key = expected
               /\ \A tm \in armed : tm.key # expected => tm \in armed'
               /\ e.type = Created =>
                     \E t \in Tasks : task'[t].op = "openFile" /\ task'[t].uri = e.path
               /\ sent' = sent]_vars
    /\ [][\A tm \in FiredTimers :
            IF tm.key.family = "change:"
              THEN /\ sent' = sent
                   /\ notifying' /\ notifyingPath' = tm.key.path
              ELSE /\ sent' = Append(sent, [method |-> DidChangeWatchedFiles,
                                            uri |-> tm.key.path, version |-> 0, registry |-> 0,
                                            changes |-> <<[uri |-> tm.key.path,
                                                           type |-> tm.key.type]>>])
                   /\ ~notifying']_vars
    /\ [][notifying /\ ~notifying' =>
            /\ task[WatcherTask].op = "notifyChange"
            /\ task[WatcherTask].uri = notifyingPath]_vars
    /\ [][Len(sent') > Len(sent) /\ sent'[Len(sent')].method = DidChange =>
            task[WatcherTask].op = "notifyChange"]_vars
    /\ [][(\E t \in Tasks : task[t].op = "openFile" /\ task'[t].res = "err"
                              /\ task[t].res # "err") =>
            armed' = armed /\ sent' = sent /\ notifying' = notifying]_vars

\* A Created event on a path opened the file and was reported with
\* workspace/didChangeWatchedFiles; a later Changed event on the path was
\* forwarded with notifyChange.
C21_Witness ==
    \E i \in 1..Len(sent), j \in 1..Len(sent), u \in Uris :
        /\ sent[i].method = DidChangeWatchedFiles
        /\ sent[i].changes = <<[uri |-> u, type |-> Created]>>
        /\ sent[j].method = DidChange /\ sent[j].uri = u
        /\ lastFileEvent.type = Changed /\ lastFileEvent.path = u

\* The registrations that match the path and include the type in their kind.
RegistrationsFor(filePath, changeType) ==
    {i \in 1..Len(registrations) :
        /\ matchesPattern(relativePath(filePath), registrations[i].globPattern)
        /\ \/ registrations[i].kind = NoKind
           \/ bitAnd(registrations[i].kind, kindFlag(changeType)) # 0}

\* C22: with at least one registration, an accepted event is delivered (its
\* timer armed, for Created the file opened) iff some registration whose
\* pattern matches the path includes the type in its kind, a registration
\* without kind counting as all three; otherwise nothing is opened, armed or
\* sent.
C22_DeliveredIffSomeRegistration ==
    [][eventsSeen' = eventsSeen + 1 /\ registrations # <<>> /\ ~lastFileEvent'.excluded =>
          LET e == lastFileEvent'
          IN IF RegistrationsFor(e.path, e.type) # {}
               THEN /\ [key |-> e.key, deadline |-> now + DebounceTime] \in armed'
                    /\ e.type = Created =>
                          \E t \in Tasks : task'[t].op = "openFile" /\ task'[t].uri = e.path
               ELSE armed' = armed /\ task' = task /\ sent' = sent]_vars

\* C26: once stop() has returned no file event is handled and no timer is
\* created; a timer still pending may fire, and a step writes at most one
\* message.
C26_NothingNewAfterStop ==
    [][watcherState = "stopped" =>
          /\ eventsSeen' = eventsSeen
          /\ lastFileEvent' = lastFileEvent
          /\ armed' \subseteq armed
          /\ watcherState' = "stopped"
          /\ Len(sent') <= Len(sent) + 1
          /\ \A tm \in FiredTimers :
                Len(sent') = Len(sent) + (IF tm.key.family = "change:" THEN 0 ELSE 1)]_vars

\* stop() has returned while the timers of two delivered events are pending,
\* one of each family, and both are due.
C26_Witness ==
    /\ watcherState = "stopped"
    /\ \E tm \in armed : Due(tm) /\ tm.key.family = "change:"
    /\ \E tm \in armed : Due(tm) /\ tm.key.family = "path:type"

----------------------------------------------------------------------------
(* Claims about the workspace walk, checked under SpecWalk *)

\* The walks that have started and not ended.
WalksInProgress == {w \in 1..Len(walks) : walks[w].pc \notin {"done", "failed"}}

\* C23: the walk is started once, by the first registration set; a later set
\* starts no walk, so at most one walk is in progress.
C23_OneWalk ==
    /\ Len(walks) <= 1
    /\ Cardinality(WalksInProgress) <= 1

\* The walks that ran to the end of walkDir.
WalksCompleted == {w \in 1..Len(walks) : walks[w].pc = "done"}

\* openFile was invoked for the file by the walk.
Invoked(w, u) == \E i \in 1..Len(walks[w].visited) :
                    walks[w].visited[i].path = u /\ walks[w].visited[i].opened

\* shouldExcludeFile returned true for the file when the walk reached it.
Excluded(w, u) == \E i \in 1..Len(walks[w].visited) :
                     walks[w].visited[i].path = u /\ walks[w].visited[i].excluded

\* Some registered pattern matches the file.
MatchesRegistered(u, regs) ==
    \E i \in 1..Len(regs) : matchesPattern(relativePath(u), regs[i].globPattern)

----------------------------------------------------------------------------
(* Claims about applyWorkspaceEdit, checked under SpecEdit *)

\* The offset of a position in the text.
offsetOf(content, p) ==
    LET lines == splitLines(content)
        lengths == [i \in 1..p.line |-> Len(lines[i]) + 1]
        RECURSIVE sum(_)
        sum(i) == IF i = 0 THEN 0 ELSE lengths[i] + sum(i - 1)
    IN sum(p.line) + p.character

\* Two edits do not overlap: one ends where or before the other starts.
NonOverlapping(edits) ==
    \A i \in 1..Len(edits), j \in 1..Len(edits) :
        i # j => \/ notAfter(edits[i].range.end, edits[j].range.start)
                 \/ notAfter(edits[j].range.end, edits[i].range.start)

\* The edit that comes first in the text; of two edits at one offset the
\* empty range, then the one given first.
FirstEdit(content, edits) ==
    CHOOSE i \in 1..Len(edits) :
        \A j \in 1..Len(edits) :
            LET si == offsetOf(content, edits[i].range.start)
                sj == offsetOf(content, edits[j].range.start)
                ei == offsetOf(content, edits[i].range.end)
                ej == offsetOf(content, edits[j].range.end)
            IN j # i => \/ si < sj
                        \/ si = sj /\ ei < ej
                        \/ si = sj /\ ei = ej /\ i < j

\* Each edit's range of the original text replaced by its new text.
RECURSIVE replaceRanges(_, _, _)
replaceRanges(content, edits, from) ==
    IF edits = <<>> THEN SubSeq(content, from + 1, Len(content))
    ELSE LET i == FirstEdit(content, edits)
             rest == [k \in 1..(Len(edits) - 1) |-> IF k < i THEN edits[k] ELSE edits[k + 1]]
         IN SubSeq(content, from + 1, offsetOf(content, edits[i].range.start))
              \o edits[i].newText
              \o replaceRanges(content, rest, offsetOf(content, edits[i].range.end))

\* The same edits in the opposite order.
reversed(edits) == [i \in 1..Len(edits) |-> edits[Len(edits) + 1 - i]]

\* C27: for non-overlapping edits the text written is the same for every
\* order of the edits and is the original text with each edit's range
\* replaced by its new text.
C27_EditsCommute ==
    editCall.made /\ NonOverlapping(editCall.edits) =>
        /\ editCall.written = applyWorkspaceEdit(editCall.content, reversed(editCall.edits))
                /\ editCall.written = [threw |-> FALSE,
                               text |-> replaceRanges(editCall.content, editCall.edits, 0)]

----------------------------------------------------------------------------
(* Claims about getFullDefinition, checked under SpecDefinition *)

\* The brace balance after the lines from..to (0-based) of the file.
RECURSIVE scanThrough(_, _, _, _)
scanThrough(lines, scan, from, to) ==
    IF from > to THEN scan
    ELSE scanThrough(lines, scanLine(scan, lines[from + 1], 1), from + 1, to)

\* The lines strictly after the reported start, up to the end of the file, on
\* which the balance, counted from the returned start line, is zero.
BalancedLines(lines, range, startLine) ==
    {i \in (range.start.line + 1)..(Len(lines) - 1) :
        scanThrough(lines, NoScan, startLine, i).braceCount = 0}

Least(S) == CHOOSE i \in S : \A k \in S : i <= k

\* The file of the example: `// doc`, `function f() {`, `  return 1;`, `}`.
ExampleFile == <<DocLine, FunctionLine, ReturnLine, CloseLine>>

\* C28: the end line returned is the first line strictly after the reported
\* start line, up to the end of the file, on which the brace balance is back
\* at zero, and the reported end line when there is none; for the example file
\* and the reported lines 1..1 the lines 0..3 are returned.
C28_EndAtBalancedLine ==
    definitionCall.made =>
        LET lines == definitionCall.lines
            range == definitionCall.range
            result == definitionCall.result.range
            balanced == BalancedLines(lines, range, result.start.line)
        IN /\ result.end.line = IF balanced # {} THEN Least(balanced) ELSE range.end.line
           /\ (lines = ExampleFile /\ range.start.line = 1 /\ range.end.line = 1) =>
                 (result.start.line = 0 /\ result.end.line = 3)

\* C29: the end line returned is never before the reported end line and the
\* start line returned never after the reported start line.
C29_RangeOnlyGrows ==
    definitionCall.made =>
        /\ definitionCall.result.range.end.line >= definitionCall.range.end.line
        /\ definitionCall.result.range.start.line <= definitionCall.range.start.line

----------------------------------------------------------------------------
(* Claims about readDefinition, checked under SpecSymbols *)

\* The name is some prefix, the separator, and the query.
EndsWithSeparator(name, separator, query) ==
    \E k \in 0..Len(name) :
        /\ SubSeq(name, k + 1, Len(name)) = separator \o query

\* C30: with a `.` in the query only a symbol named as the query is accepted;
\* otherwise a Method named as the query or ending with `::` or `.` and the
\* query, and a symbol of another kind only when named as the query; when no
\* symbol is accepted the result is the query followed by ` not found`.
C30_SymbolAcceptance ==
    symbolCall.made =>
        LET query == symbolCall.query
            qualified == \E i \in 1..Len(query) : query[i] = "."
        IN /\ \A i \in 1..Len(symbolCall.results) :
                 LET sym == symbolCall.results[i]
                 IN i \in symbolCall.accepted <=>
                       IF qualified THEN sym.name = query
                       ELSE IF sym.kind = Method
                         THEN \/ sym.name = query
                              \/ EndsWithSeparator(sym.name, <<":", ":">>, query)
                              \/ EndsWithSeparator(sym.name, <<".">>, query)
                       ELSE sym.name = query
           /\ symbolCall.accepted = {} => symbolCall.output = query \o NotFound
           /\ symbolCall.output # query \o NotFound =>
                 \E i \in symbolCall.accepted : symbolCall.results[i].opens

\* The query `f` against the Method `T::f` and the Function `T.f`: the first
\* is read, the second is not.
C30_Witness ==
    /\ symbolCall.made
    /\ symbolCall.query = <<"f">>
    /\ symbolCall.results = <<[name |-> <<"T", ":", ":", "f">>, kind |-> Method, opens |-> TRUE],
                              [name |-> <<"T", ".", "f">>, kind |-> Function, opens |-> TRUE]>>
    /\ symbolCall.accepted = {1}
    /\ symbolCall.output = <<"-", "-", "-", "T", ":", ":", "f">>

----------------------------------------------------------------------------
(* Claims about the line ranges of findReferences, checked under SpecDisplay *)
(* and SpecRanges                                                            *)

\* C31: the set returned is the union, over the references, of the indices
\* from max(0, sl-C) to min(total, el+C), clipped to 0..total-1; for 20 lines,
\* references at 3, 4 and 12 and C = 2 it is 1..6 and 10..14.
C31_DisplayedLines ==
    displayCall.made =>
        LET input == displayCall.input
            C == input.contextLines
            total == input.totalLines
            span(k) == input.locations[k]
        IN /\ displayCall.result =
                 UNION {{i \in 0..(total - 1) :
                            /\ i >= span(k).start - C
                            /\ i <= span(k).end + C} : k \in 1..Len(input.locations)}
           /\ input = ExampleDisplay => displayCall.result = (1..6) \cup (10..14)

\* C32: the ranges returned are in ascending order, pairwise disjoint and not
\* adjacent, cover exactly the lines of the set, and are the empty list for
\* the empty set.
C32_MaximalRanges ==
    rangesCall.made =>
        LET ranges == rangesCall.result
        IN /\ \A k \in 1..Len(ranges) : ranges[k].start <= ranges[k].end
           /\ \A k \in 1..(Len(ranges) - 1) : ranges[k].end + 1 < ranges[k + 1].start
           /\ rangesCall.lines = UNION {ranges[k].start..ranges[k].end : k \in 1..Len(ranges)}
           /\ rangesCall.lines = {} => ranges = <<>>

\* The lines 1, 2, 3, 5 and 6 give the ranges 1..3 and 5..6.
C32_Witness ==
    /\ rangesCall.made
    /\ rangesCall.lines = {1, 2, 3, 5, 6}
    /\ rangesCall.result = <<[start |-> 1, end |-> 3], [start |-> 5, end |-> 6]>>

----------------------------------------------------------------------------
(* Claims about the symbol wrappers, checked under SpecLocation *)

\* C33: for a result whose location carries only a uri, getLocation returns
\* that uri with the range (0,0)-(0,0); for a result whose location carries a
\* range it returns the location unchanged.
C33_LocationOfSymbol ==
    (locationCall.made /\ carries(locationCall.symbol, "location")) =>
        LET location == locationCall.symbol.location
            result == locationCall.result
        IN /\ ~result.threw
           /\ carries(location, "range") => result.location = location
           /\ ~carries(location, "range") =>
                 /\ carries(result.location, "range")
                 /\ result.location.uri = location.uri
                 /\ result.location.range = ZeroRange

----------------------------------------------------------------------------
(* Claims about applyTextEdits, checked under SpecTextEdits *)

\* C34: when an edit of the list has startLine < 1, applyTextEdits fails and
\* the file content is unchanged, wherever the invalid edit stands in the list.
C34_InvalidStartLine ==
    (/\ textEditsCall.made
     /\ \E k \in 1..Len(textEditsCall.edits) : textEditsCall.edits[k].startLine < 1) =>
        /\ textEditsCall.result.threw
        /\ textEditsCall.result.text = textEditsCall.content

\* A valid replacement of line 2 followed by an edit at line 0: the call
\* fails and the file opened is as before.
C34_Witness ==
    /\ textEditsCall.made
    /\ textEditsCall.opens
    /\ textEditsCall.content = FileContent
    /\ Len(textEditsCall.edits) = 2
    /\ textEditsCall.edits[1] = [startLine |-> 2, endLine |-> 2, newText |-> <<"X">>]
    /\ textEditsCall.edits[2].startLine = 0
    /\ textEditsCall.result.threw
    /\ textEditsCall.result.text = FileContent

----------------------------------------------------------------------------
(* Claims about the workspace-symbol cache, checked under SpecCache *)

\* C35: after any sequence of setWorkspaceSymbols calls the number of cached
\* entries never exceeds maxSymbolCacheSize, and a call on a full cache
\* removes the entry inserted first.
C35_CacheSizeBounded == Len(workspaceSymbolsCache) <= MaxSymbolCacheSize

----------------------------------------------------------------------------
(* Claims about failed writes of call(), checked under SpecRpc *)

\* C38: the Pending Request Table holds an id only while the call that
\* allocated it is waiting for its response; the entry of a call whose write
\* to the child's stdin failed has been removed.
C38_PendingOnlyWhileWaiting ==
    \A key \in pendingRequests :
        \E i \in 1..Len(callState) :
            /\ toString(NumberId(callState[i].id)) = key
            /\ callState[i].st = "waiting"

----------------------------------------------------------------------------
(* Claims about server requests that follow the initialize response, checked *)
(* under SpecInitialize                                                      *)

\* C39: once the response to `initialize` has been dispatched, no request of
\* the server for workspace/configuration, client/registerCapability or
\* workspace/applyEdit is answered with the error -32601.
C39_DefaultHandlersInTime ==
    [][(initResponse = "result" /\ Len(stdinLog') > Len(stdinLog)) =>
          ~(/\ stdinLog'[Len(stdinLog')].kind = "error"
            /\ stdinLog'[Len(stdinLog')].code = MethodNotFound)]_vars

----------------------------------------------------------------------------
(* Claims about events on opened files, checked under SpecEvents and *)
(* SpecChanges                                                       *)

\* The step is handleFileEvent for an event of the type on a path in the registry.
EventOnOpenFile(changeType) ==
    /\ eventsSeen' = eventsSeen + 1
    /\ lastFileEvent'.type = changeType
    /\ openFiles[lastFileEvent'.path] # 0

\* The step is the expiry of the timer of (path, Deleted).
DeletedTimerFired(filePath) ==
    /\ eventsSeen' = eventsSeen
    /\ \E tm \in armed \ armed' : tm.key = fileEventKey(filePath, Deleted)

\* C40: a Deleted event for a file in the registry leaves the registry as it
\* is and writes nothing; the expiry of its timer writes one
\* workspace/didChangeWatchedFiles of type Deleted and no didClose; a Created
\* event for a path in the registry writes nothing and starts no read for a
\* didOpen.
C40_DeletedKeepsEntry ==
    [][/\ EventOnOpenFile(Deleted) =>
            /\ RegistryUnchanged
            /\ sent' = sent
            /\ task' = task
            /\ lastFileEvent'.delivered =>
                  \E tm \in armed' : tm.key = fileEventKey(lastFileEvent'.path, Deleted)
       /\ \A filePath \in Uris :
            DeletedTimerFired(filePath) =>
                /\ RegistryUnchanged
                /\ Len(sent') = Len(sent) + 1
                /\ sent'[Len(sent')].method = DidChangeWatchedFiles
                /\ sent'[Len(sent')].changes = <<[uri |-> filePath, type |-> Deleted]>>
       /\ EventOnOpenFile(Created) =>
            /\ RegistryUnchanged
            /\ sent' = sent
            /\ \A t \in Tasks : task'[t].pc = "read" => task'[t] = task[t]
      ]_vars

\* A file opened through the client, then deleted and created again: both
\* events were accepted and the only message written is the first didOpen.
C40_Witness ==
    /\ eventsSeen = 2
    /\ lastFileEvent.type = Created /\ lastFileEvent.delivered
    /\ openFiles[lastFileEvent.path] # 0
    /\ \E tm \in armed : tm.key = fileEventKey(lastFileEvent.path, Deleted)
    /\ \E tm \in armed : tm.key = fileEventKey(lastFileEvent.path, Created)
    /\ Len(sent) = 1
    /\ sent[1].method = DidOpen /\ sent[1].uri = lastFileEvent.path

\* A timer armed by an accepted Changed event for the path is pending.
ChangedPending(filePath) ==
    \E tm \in armed : tm.key \in {changeKey(filePath), fileEventKey(filePath, Changed)}

\* The didChange and didChangeWatchedFiles messages written for the path.
ChangesWritten(filePath) ==
    Cardinality({i \in 1..Len(sent) :
                    /\ sent[i].uri = filePath
                    /\ sent[i].method \in {DidChange, DidChangeWatchedFiles}})



\* C36: every accepted Changed event is followed, after the debounce period,
\* by the write of a textDocument/didChange or a workspace/didChangeWatchedFiles
\* for its path, also when the file is closed or opened in between.
C36_ChangeReachesServer ==
    \A filePath \in Uris, n \in 0..MaxFileEvents :
        (ChangedPending(filePath) /\ ChangesWritten(filePath) = n)
            ~> (ChangesWritten(filePath) > n)

----------------------------------------------------------------------------
(* Claims about the completion of cleanup, checked under SpecShutdown *)

\* C37: once cleanup has started, close() is eventually reached and settles
\* with the child terminated (it exited or was sent SIGKILL), whatever the
\* server does.
C37_CleanupCompletes ==
    (cleanupPc # "notStarted") ~> (cleanupPc = "done" /\ (childExited \/ killed))

====
